---- MODULE Spec2Model ----
(***************************************************************************)
(* The merge-persistence layer of the Twitch crawler (src/database.py):    *)
(* the SQLite store with its tables, the implicit transaction each         *)
(* connection opens on its first write, and the save / upsert / mark       *)
(* operations.  The mention-processing pass that calls the upserts is not  *)
(* part of src/ and is modelled from the specification's section 5.        *)
(***************************************************************************)
EXTENDS Integers, Naturals, Sequences, FiniteSets, TLC

VARIABLES
    committed,  \* the durable content of the database file
    pending,    \* the working copy of the connection holding the write lock
    writer,     \* the connection with an open write transaction, or NoConn
    now,        \* the wall clock read by datetime.now / CURRENT_TIMESTAMP
    lastOp,     \* the operation performed last, with its arguments and outcome
    pc,         \* mention pass: position of each worker
    batch,      \* mention pass: the rows of the fetched batch still to handle
    todo,       \* mention pass: mentioned channels of the current video still to upsert
    done,       \* mention pass: videos marked in the transaction that is open
    access_token,      \* API client: self._access_token
    token_expires_at,  \* API client: self._token_expires_at
    request,    \* API client: the locals of the running _make_request
    trace,      \* API client: what the running call has done so far
    fetch,      \* API client: the locals of the running get_channel_videos
    scanLoop    \* category scan loop: the list in hand and what is left of it

storeVars == <<committed, pending, writer, now, lastOp>>
passVars == <<pc, batch, todo, done>>
clientVars == <<access_token, token_expires_at, request, trace, fetch, scanLoop>>
vars == <<committed, pending, writer, now, lastOp, pc, batch, todo, done,
          access_token, token_expires_at, request, trace, fetch, scanLoop>>

(***************************************************************************)
(* Bounds of the model.                                                    *)
(***************************************************************************)
\* the clock takes the values 1..MaxClock
MaxClock == 2
\* the upserts of one table stop when its counts add up to MaxCount (edges)
\* or MaxCtxCount (per-game context rows)
MaxCount == 2
MaxCtxCount == 2

\* SQL NULL and Python None
NULL == -1
\* a timestamp string datetime.fromisoformat rejects
BAD == -2

Conns == {"c1", "c2"}
NoConn == "none"

\* Channel ids are TEXT: strings of digits, here "10", "9" and "11".
\* Python's min/max and SQLite's BINARY collation compare them as strings.
ChA == <<1, 0>>
ChB == <<9>>
ChC == <<1, 1>>
ChannelIds == {ChA, ChB, ChC}

\* published_at / created_at values carried by the calls
Timestamps == {1, 2}
Durations == {NULL, 50, 100}

\* game_id values: None, an empty or blank string, a category id
EMPTY == -3
GameIds == {NULL, EMPTY, 7}
GameNames == {NULL, EMPTY, 1}
\* "UNKNOWN_GAME_ID" and "Unknown/Not Specified"
UNKNOWN_GAME_ID == -100
UNKNOWN_GAME_NAME == -101

(***************************************************************************)
(* String order on ids, min and max as Python computes them.               *)
(***************************************************************************)
RECURSIVE StrLess(_, _)
StrLess(s, t) ==
    IF t = <<>> THEN FALSE
    ELSE IF s = <<>> THEN TRUE
    ELSE IF Head(s) < Head(t) THEN TRUE
    ELSE IF Head(s) > Head(t) THEN FALSE
    ELSE StrLess(Tail(s), Tail(t))

PyMin(a, b) == IF StrLess(b, a) THEN b ELSE a
PyMax(a, b) == IF StrLess(a, b) THEN b ELSE a

(***************************************************************************)
(* SQL expressions over nullable values.                                   *)
(***************************************************************************)
\* x > y is NULL, hence not true, when either side is NULL
SqlGreater(x, y) == x # NULL /\ y # NULL /\ x > y
Coalesce(x, y) == IF x # NULL THEN x ELSE y

\* datetime.fromisoformat inside try/except ValueError: None when absent or malformed
ParseTimestamp(s) == IF s = NULL \/ s = BAD THEN NULL ELSE s

(***************************************************************************)
(* The database: one function per table, keyed by the primary key.         *)
(***************************************************************************)
EmptyTable == [k \in {} |-> NULL]
EmptyDb ==
    [channels |-> EmptyTable, videos |-> EmptyTable,
     collabs |-> EmptyTable, context |-> EmptyTable,
     categories |-> EmptyTable, observed |-> EmptyTable]

Put(table, key, row) ==
    [k \in DOMAIN table \cup {key} |-> IF k = key THEN row ELSE table[k]]

\* what connection c reads: its own uncommitted writes, else the committed file
View(c) == IF writer = c THEN pending ELSE committed

\* a write statement needs the RESERVED lock
CanWrite(c) == writer = NoConn \/ writer = c

\* FOREIGN KEY (...) REFERENCES Channels (id), enforced by PRAGMA foreign_keys
ChannelExists(db, id) == id \in DOMAIN db.channels

\* a write statement of c succeeded: c holds the transaction, nothing is durable yet
Executed(c, newdb) ==
    /\ pending' = newdb
    /\ writer' = c
    /\ committed' = committed

\* conn.commit()
ConnCommit(c, db) ==
    /\ committed' = db
    /\ pending' = db
    /\ writer' = NoConn

\* conn.rollback(), or a statement that raised with nothing written
ConnRollback(c) ==
    IF writer = c
    THEN /\ writer' = NoConn
         /\ pending' = committed
         /\ committed' = committed
    ELSE UNCHANGED <<committed, pending, writer>>

\* a statement that raised: the connection keeps whatever it had pending
Raised == UNCHANGED <<committed, pending, writer>>

(***************************************************************************)
(* save_channel_basic: INSERT OR IGNORE INTO Channels (id, login,          *)
(* display_name), then commit.                                             *)
(***************************************************************************)
StubRow(login, display_name) ==
    [login |-> login, display_name |-> display_name, description |-> NULL,
     profile_image_url |-> NULL, broadcaster_type |-> NULL, view_count |-> NULL,
     follower_count |-> NULL, created_at |-> NULL, first_seen |-> now,
     last_fetched_details |-> NULL, last_fetched_videos |-> NULL]

LoginTaken(db, login, id) ==
    \E k \in DOMAIN db.channels : k # id /\ db.channels[k].login = login

\* mutant: INSERT OR REPLACE, an existing row rewritten as a stub
InsertOrIgnoreChannel_Replace(db, id, login, display_name) ==
    [db EXCEPT !.channels = Put(db.channels, id, StubRow(login, display_name))]

\* OR IGNORE skips the row on a PRIMARY KEY or UNIQUE (login) conflict
InsertOrIgnoreChannel(db, id, login, display_name) ==
    IF id \in DOMAIN db.channels \/ LoginTaken(db, login, id)
    THEN db
    ELSE [db EXCEPT !.channels = Put(db.channels, id, StubRow(login, display_name))]

SaveChannelBasic(c, id, login, display_name) ==
    /\ now' = now
    /\ IF CanWrite(c)
       THEN /\ ConnCommit(c, InsertOrIgnoreChannel(View(c), id, login, display_name))
            /\ lastOp' = [op |-> "save_channel_basic", conn |-> c, id |-> id,
                          login |-> login, raised |-> FALSE, result |-> TRUE]
       ELSE /\ ConnRollback(c)
            /\ lastOp' = [op |-> "save_channel_basic", conn |-> c, id |-> id,
                          login |-> login, raised |-> FALSE, result |-> FALSE]

(***************************************************************************)
(* save_channel_details: INSERT ... ON CONFLICT(id) DO UPDATE, then        *)
(* commit; on a store error rollback and re-raise.                         *)
(***************************************************************************)
\* the tuple bound to the INSERT ("excluded" in the ON CONFLICT clause)
ExcludedChannel(channel_details) ==
    [login |-> channel_details.login,
     display_name |-> channel_details.display_name,
     description |-> channel_details.description,
     profile_image_url |-> channel_details.profile_image_url,
     broadcaster_type |-> channel_details.broadcaster_type,
     view_count |-> IF channel_details.view_count = NULL
                    THEN 0 ELSE channel_details.view_count,
     follower_count |-> channel_details.follower_count,
     created_at |-> ParseTimestamp(channel_details.created_at),
     first_seen |-> now,
     last_fetched_details |-> now,
     last_fetched_videos |-> NULL]

\* mutant: INSERT OR REPLACE, the stored row replaced by the proposed one
ChannelConflictUpdate_Replace(old, excluded) == excluded

\* ON CONFLICT(id) DO UPDATE SET ...: first_seen and last_fetched_videos are not listed
ChannelConflictUpdate(old, excluded) ==
    [login |-> excluded.login,
     display_name |-> excluded.display_name,
     description |-> excluded.description,
     profile_image_url |-> excluded.profile_image_url,
     broadcaster_type |-> excluded.broadcaster_type,
     view_count |-> excluded.view_count,
     follower_count |-> excluded.follower_count,
     created_at |-> Coalesce(excluded.created_at, old.created_at),
     first_seen |-> old.first_seen,
     last_fetched_details |-> excluded.last_fetched_details,
     last_fetched_videos |-> old.last_fetched_videos]

ChannelDetailsUpserted(db, channel_details) ==
    [db EXCEPT !.channels =
        Put(db.channels, channel_details.id,
            IF channel_details.id \in DOMAIN db.channels
            THEN ChannelConflictUpdate(db.channels[channel_details.id],
                                       ExcludedChannel(channel_details))
            ELSE ExcludedChannel(channel_details))]

\* sqlite3.Error: database locked, or UNIQUE (login) held by another channel
ChannelDetailsFails(c, channel_details) ==
    \/ ~CanWrite(c)
    \/ LoginTaken(View(c), channel_details.login, channel_details.id)

SaveChannelDetails(c, channel_details) ==
    /\ now' = now
    /\ IF ChannelDetailsFails(c, channel_details)
       THEN /\ ConnRollback(c)
            /\ lastOp' = [op |-> "save_channel_details", conn |-> c,
                          details |-> channel_details, raised |-> TRUE]
       ELSE /\ ConnCommit(c, ChannelDetailsUpserted(View(c), channel_details))
            /\ lastOp' = [op |-> "save_channel_details", conn |-> c,
                          details |-> channel_details, raised |-> FALSE]

(***************************************************************************)
(* upsert_collaboration_edge                                               *)
(***************************************************************************)
\* the row the INSERT proposes ("excluded" in the ON CONFLICT clause)
ExcludedEdge(duration, published_at_ts) ==
    [collaboration_count |-> 1,
     total_collaboration_duration_seconds |-> duration,
     latest_collaboration_timestamp |-> published_at_ts,
     first_collaboration_timestamp |-> published_at_ts,
     last_updated |-> now]

\* mutant: first_collaboration_timestamp = excluded.first_collaboration_timestamp
EdgeConflictUpdate_OverwriteFirst(old, excluded) ==
    [collaboration_count |-> old.collaboration_count + 1,
     total_collaboration_duration_seconds |->
         old.total_collaboration_duration_seconds
             + excluded.total_collaboration_duration_seconds,
     latest_collaboration_timestamp |->
         IF SqlGreater(excluded.latest_collaboration_timestamp,
                       old.latest_collaboration_timestamp)
         THEN excluded.latest_collaboration_timestamp
         ELSE old.latest_collaboration_timestamp,
     first_collaboration_timestamp |-> excluded.first_collaboration_timestamp,
     last_updated |-> excluded.last_updated]

\* ON CONFLICT(channel_id_1, channel_id_2) DO UPDATE SET ...
EdgeConflictUpdate(old, excluded) ==
    [collaboration_count |-> old.collaboration_count + 1,
     total_collaboration_duration_seconds |->
         old.total_collaboration_duration_seconds
             + excluded.total_collaboration_duration_seconds,
     latest_collaboration_timestamp |->
         IF SqlGreater(excluded.latest_collaboration_timestamp,
                       old.latest_collaboration_timestamp)
         THEN excluded.latest_collaboration_timestamp
         ELSE old.latest_collaboration_timestamp,
     first_collaboration_timestamp |->
         Coalesce(old.first_collaboration_timestamp,
                  excluded.first_collaboration_timestamp),
     last_updated |-> excluded.last_updated]

\* mutant: the pair stored in the order the caller passed it
EdgeKey_AsPassed(channel_a_id, channel_b_id) == <<channel_a_id, channel_b_id>>

\* lines 281-282: the canonical key of the pair
EdgeKey(channel_a_id, channel_b_id) ==
    <<PyMin(channel_a_id, channel_b_id), PyMax(channel_a_id, channel_b_id)>>

\* mutant: the guard dropped
EdgeSkipped_Never(channel_a_id, channel_b_id) == FALSE

\* line 279: the self-pair guard
EdgeSkipped(channel_a_id, channel_b_id) == channel_a_id = channel_b_id

\* line 285
EffectiveDuration(video_duration_seconds) ==
    IF video_duration_seconds # NULL THEN video_duration_seconds ELSE 0

\* the table after the INSERT ... ON CONFLICT statement
EdgeUpserted(db, channel_a_id, channel_b_id, video_published_at, video_duration_seconds) ==
    LET key == EdgeKey(channel_a_id, channel_b_id)
        excluded == ExcludedEdge(EffectiveDuration(video_duration_seconds),
                                 video_published_at)
    IN  [db EXCEPT !.collabs =
            Put(db.collabs, key,
                IF key \in DOMAIN db.collabs
                THEN EdgeConflictUpdate(db.collabs[key], excluded)
                ELSE excluded)]

\* History kept with the transaction it belongs to: for each unordered pair the
\* number of upsert_collaboration_edge statements executed on it, the sum of the
\* durations and the greatest timestamp those calls carried.
LaterOf(x, y) == IF x = NULL THEN y ELSE IF y = NULL THEN x ELSE IF x > y THEN x ELSE y

EdgeObserved(db, channel_a_id, channel_b_id, video_published_at, video_duration_seconds) ==
    LET pair == {channel_a_id, channel_b_id}
        d == IF video_duration_seconds = NULL THEN 0 ELSE video_duration_seconds
        old == IF pair \in DOMAIN db.observed
               THEN db.observed[pair]
               ELSE [calls |-> 0, duration |-> 0, latest |-> NULL]
    IN  Put(db.observed, pair,
            [calls |-> old.calls + 1, duration |-> old.duration + d,
             latest |-> LaterOf(old.latest, video_published_at)])

\* the statement raises sqlite3.Error: database locked, or a foreign key fails
EdgeStatementFails(c, channel_a_id, channel_b_id) ==
    \/ ~CanWrite(c)
    \/ ~ChannelExists(View(c), channel_a_id)
    \/ ~ChannelExists(View(c), channel_b_id)

\* mutant: the upsert commits by itself, as the save_ operations do
UpsertCollaborationEdge_Committing(c, channel_a_id, channel_b_id, video_published_at, video_duration_seconds) ==
    /\ now' = now
    /\ lastOp' = [op |-> "upsert_collaboration_edge", conn |-> c,
                  a |-> channel_a_id, b |-> channel_b_id,
                  ts |-> video_published_at, d |-> video_duration_seconds,
                  raised |-> EdgeStatementFails(c, channel_a_id, channel_b_id)]
    /\ IF EdgeStatementFails(c, channel_a_id, channel_b_id)
       THEN Raised
       ELSE ConnCommit(c,
                [EdgeUpserted(View(c), channel_a_id, channel_b_id,
                              video_published_at, video_duration_seconds)
                 EXCEPT !.observed =
                    EdgeObserved(View(c), channel_a_id, channel_b_id,
                                 video_published_at, video_duration_seconds)])

UpsertCollaborationEdge(c, channel_a_id, channel_b_id, video_published_at, video_duration_seconds) ==
    /\ now' = now
    /\ IF EdgeSkipped(channel_a_id, channel_b_id)
       THEN /\ UNCHANGED <<committed, pending, writer>>
            /\ lastOp' = [op |-> "upsert_collaboration_edge", conn |-> c,
                          a |-> channel_a_id, b |-> channel_b_id,
                          ts |-> video_published_at, d |-> video_duration_seconds,
                          raised |-> FALSE]
       ELSE IF EdgeStatementFails(c, channel_a_id, channel_b_id)
       THEN /\ Raised
            /\ lastOp' = [op |-> "upsert_collaboration_edge", conn |-> c,
                          a |-> channel_a_id, b |-> channel_b_id,
                          ts |-> video_published_at, d |-> video_duration_seconds,
                          raised |-> TRUE]
       ELSE /\ Executed(c,
                [EdgeUpserted(View(c), channel_a_id, channel_b_id,
                              video_published_at, video_duration_seconds)
                 EXCEPT !.observed =
                    EdgeObserved(View(c), channel_a_id, channel_b_id,
                                 video_published_at, video_duration_seconds)])
            /\ lastOp' = [op |-> "upsert_collaboration_edge", conn |-> c,
                          a |-> channel_a_id, b |-> channel_b_id,
                          ts |-> video_published_at, d |-> video_duration_seconds,
                          raised |-> FALSE]

(***************************************************************************)
(* upsert_collaboration_context                                            *)
(***************************************************************************)
\* line 324: game_id if game_id and game_id.strip() else "UNKNOWN_GAME_ID"
EffectiveGameId(game_id) ==
    IF game_id # NULL /\ game_id # EMPTY THEN game_id ELSE UNKNOWN_GAME_ID

\* line 325
EffectiveGameName(game_id, game_name) ==
    IF EffectiveGameId(game_id) # UNKNOWN_GAME_ID /\ game_name # NULL /\ game_name # EMPTY
    THEN game_name
    ELSE UNKNOWN_GAME_NAME

ExcludedContext(game_name, duration) ==
    [game_name |-> game_name, context_collaboration_count |-> 1,
     context_total_duration_seconds |-> duration, last_updated |-> now]

\* ON CONFLICT(channel_id_1, channel_id_2, game_id) DO UPDATE SET ...
ContextConflictUpdate(old, excluded) ==
    [game_name |-> Coalesce(excluded.game_name, old.game_name),
     context_collaboration_count |-> old.context_collaboration_count + 1,
     context_total_duration_seconds |->
         old.context_total_duration_seconds + excluded.context_total_duration_seconds,
     last_updated |-> excluded.last_updated]

\* lines 321-324: the key of the context row; no self-pair guard precedes it
ContextKey(channel_id_1, channel_id_2, game_id) ==
    <<PyMin(channel_id_1, channel_id_2), PyMax(channel_id_1, channel_id_2),
      EffectiveGameId(game_id)>>

ContextUpserted(db, channel_id_1, channel_id_2, game_id, game_name, video_duration_seconds) ==
    LET key == ContextKey(channel_id_1, channel_id_2, game_id)
        excluded == ExcludedContext(EffectiveGameName(game_id, game_name),
                                    EffectiveDuration(video_duration_seconds))
    IN  [db EXCEPT !.context =
            Put(db.context, key,
                IF key \in DOMAIN db.context
                THEN ContextConflictUpdate(db.context[key], excluded)
                ELSE excluded)]

UpsertCollaborationContext(c, channel_id_1, channel_id_2, game_id, game_name, video_duration_seconds) ==
    /\ now' = now
    /\ IF EdgeStatementFails(c, channel_id_1, channel_id_2)
       THEN /\ Raised
            /\ lastOp' = [op |-> "upsert_collaboration_context", conn |-> c,
                          a |-> channel_id_1, b |-> channel_id_2, raised |-> TRUE]
       ELSE /\ Executed(c, ContextUpserted(View(c), channel_id_1, channel_id_2,
                                           game_id, game_name, video_duration_seconds))
            /\ lastOp' = [op |-> "upsert_collaboration_context", conn |-> c,
                          a |-> channel_id_1, b |-> channel_id_2, raised |-> FALSE]

(***************************************************************************)
(* save_videos: INSERT OR IGNORE of a batch, then commit; rollback on a    *)
(* store error.  The pass-through columns url, thumbnail_url, view_count,  *)
(* type, language and muted_segments are copied like title and description.*)
(***************************************************************************)
VideoRow(video) ==
    [channel_id |-> video.user_id, title |-> video.title,
     description |-> video.description,
     published_at |-> ParseTimestamp(video.published_at),
     duration |-> video.duration, game_id |-> video.game_id,
     created_at_api |-> ParseTimestamp(video.created_at),
     fetched_at |-> now, mentions_processed_at |-> NULL]

\* mutant: INSERT OR REPLACE, the stored row rewritten by a re-observation
InsertOrIgnoreVideo_Replace(db, video) ==
    [db EXCEPT !.videos = Put(db.videos, video.id, VideoRow(video))]

\* mutant: ON CONFLICT(id) DO UPDATE SET title, the marker kept
InsertOrIgnoreVideo_UpdateTitle(db, video) ==
    IF video.id \in DOMAIN db.videos
    THEN [db EXCEPT !.videos[video.id].title = video.title]
    ELSE [db EXCEPT !.videos = Put(db.videos, video.id, VideoRow(video))]

\* OR IGNORE skips a row whose id is stored already
InsertOrIgnoreVideo(db, video) ==
    IF video.id \in DOMAIN db.videos
    THEN db
    ELSE [db EXCEPT !.videos = Put(db.videos, video.id, VideoRow(video))]

\* FOREIGN KEY (channel_id) REFERENCES Channels (id): OR IGNORE does not cover it
VideoViolatesForeignKey(db, video) ==
    video.id \notin DOMAIN db.videos /\ ~ChannelExists(db, video.user_id)

\* cursor.executemany: row after row, stopping at the first error
RECURSIVE ExecuteManyVideos(_, _)
ExecuteManyVideos(db, videos) ==
    IF videos = <<>> THEN [ok |-> TRUE, db |-> db]
    ELSE IF VideoViolatesForeignKey(db, Head(videos)) THEN [ok |-> FALSE, db |-> db]
    ELSE ExecuteManyVideos(InsertOrIgnoreVideo(db, Head(videos)), Tail(videos))

SaveVideos(c, videos) ==
    /\ now' = now
    /\ IF CanWrite(c) /\ ExecuteManyVideos(View(c), videos).ok
       THEN /\ ConnCommit(c, ExecuteManyVideos(View(c), videos).db)
            /\ lastOp' = [op |-> "save_videos", conn |-> c, videos |-> videos,
                          raised |-> FALSE, failed |-> FALSE, result |-> NULL]
       ELSE /\ ConnRollback(c)
            /\ lastOp' = [op |-> "save_videos", conn |-> c, videos |-> videos,
                          raised |-> FALSE, failed |-> TRUE, result |-> NULL]

(***************************************************************************)
(* mark_video_mentions_processed: UPDATE Videos SET mentions_processed_at  *)
(***************************************************************************)
\* mutant: the UPDATE matches no row
VideoMarked_NoRow(db, video_id) == db

VideoMarked(db, video_id) ==
    IF video_id \in DOMAIN db.videos
    THEN [db EXCEPT !.videos[video_id].mentions_processed_at = now]
    ELSE db

MarkVideoMentionsProcessed(c, video_id) ==
    /\ now' = now
    /\ IF CanWrite(c)
       THEN /\ Executed(c, VideoMarked(View(c), video_id))
            /\ lastOp' = [op |-> "mark_video_mentions_processed", conn |-> c,
                          video |-> video_id, raised |-> FALSE]
       ELSE /\ Raised
            /\ lastOp' = [op |-> "mark_video_mentions_processed", conn |-> c,
                          video |-> video_id, raised |-> TRUE]

(***************************************************************************)
(* get_unprocessed_videos_batch: WHERE mentions_processed_at IS NULL       *)
(* ORDER BY fetched_at ASC LIMIT ?.  Rows with equal fetched_at come in    *)
(* any order, so the operator gives every list the query may return.       *)
(***************************************************************************)
Unprocessed(db) ==
    {v \in DOMAIN db.videos : db.videos[v].mentions_processed_at = NULL}

SmallerOf(x, y) == IF x < y THEN x ELSE y

GetUnprocessedVideosBatch(db, batch_size) ==
    LET U == Unprocessed(db)
        n == SmallerOf(batch_size, Cardinality(U))
    IN  {s \in [1..n -> U] :
            /\ \A i \in 1..n, j \in 1..n : i # j => s[i] # s[j]
            /\ \A i \in 1..n, j \in 1..n :
                  i < j => db.videos[s[i]].fetched_at <= db.videos[s[j]].fetched_at
            /\ \A u \in U : (\A i \in 1..n : s[i] # u) =>
                  \A i \in 1..n : db.videos[s[i]].fetched_at <= db.videos[u].fetched_at}

(***************************************************************************)
(* The caller's transaction control and the clock.                         *)
(***************************************************************************)
\* conn.commit() by the caller of the upserts
Commit(c) ==
    /\ writer = c
    /\ ConnCommit(c, pending)
    /\ now' = now
    /\ lastOp' = [op |-> "commit", conn |-> c, raised |-> FALSE]

\* conn.rollback() by the caller, or the connection lost with a transaction open
Rollback(c) ==
    /\ writer = c
    /\ ConnRollback(c)
    /\ now' = now
    /\ lastOp' = [op |-> "rollback", conn |-> c, raised |-> FALSE]

Tick ==
    /\ now < MaxClock
    /\ now' = now + 1
    /\ UNCHANGED <<committed, pending, writer, lastOp>>

(***************************************************************************)
(* Counters the bounds cap.                                                *)
(***************************************************************************)
RECURSIVE SumOver(_, _, _)
SumOver(table, keys, field) ==
    IF keys = {} THEN 0
    ELSE LET k == CHOOSE x \in keys : TRUE
         IN  table[k][field] + SumOver(table, keys \ {k}, field)

EdgeUpserts(db) == SumOver(db.collabs, DOMAIN db.collabs, "collaboration_count")
ContextUpserts(db) == SumOver(db.context, DOMAIN db.context, "context_collaboration_count")

(***************************************************************************)
(* Spec: the edge tables under arbitrary calls on two connections.         *)
(***************************************************************************)
PairChannels == {ChA, ChB}
\* the connection the calls of Spec are made on
CallConns == {"c1"}
LoginOf(id) == IF id = ChA THEN 1 ELSE IF id = ChB THEN 2 ELSE 3

(***************************************************************************)
(* The API client (src/twitch_api.py, TwitchAPIClient): the token it       *)
(* holds and the locals of _make_request.  Its state after __init__.       *)
(***************************************************************************)
\* the bearer token a credential exchange returns
TOKEN == 1

\* no successful exchange to remember
NotIssued == [t |-> NULL, ttl |-> NULL]

\* the locals of _make_request when no call is running
NoRequest ==
    [pc |-> "idle", retries |-> 0, max_retries |-> 0, response |-> NULL,
     result |-> "none"]

NoTrace ==
    [calls |-> 0, sent |-> 0, exchanges |-> 0, issued |-> NotIssued,
     earliest |-> NULL, unauthorized |-> 0, waited |-> FALSE]

\* the locals of get_channel_videos when no call is running; received,
\* requests, failed, malformed and stop record what the call has met
NoFetch ==
    [pc |-> "idle", user_id |-> <<>>, limit |-> 0, after_date |-> NULL,
     first |-> 0, cursor |-> NULL, pages_fetched |-> 0,
     max_potential_pages |-> 0, all_videos |-> <<>>, last_batch |-> 0,
     received |-> <<>>, requests |-> <<>>, failed |-> FALSE,
     malformed |-> FALSE, stop |-> "none"]

\* no scan loop running
NoScan ==
    [pc |-> "idle", limit |-> 0, result |-> <<>>, remaining |-> <<>>,
     stamped |-> 0]

\* __init__: no token, an expiry that is already reached
ClientInit ==
    /\ access_token = NULL
    /\ token_expires_at = now
    /\ request = NoRequest
    /\ trace = NoTrace
    /\ fetch = NoFetch
    /\ scanLoop = NoScan

Init ==
    /\ committed = EmptyDb
    /\ pending = EmptyDb
    /\ writer = NoConn
    /\ now = 1
    /\ lastOp = [op |-> "init", conn |-> NoConn, raised |-> FALSE]
    /\ pc = [w \in Conns |-> "idle"]
    /\ batch = [w \in Conns |-> <<>>]
    /\ todo = [w \in Conns |-> <<>>]
    /\ done = [w \in Conns |-> {}]
    /\ ClientInit

CallSaveChannelBasic ==
    \E c \in CallConns, id \in PairChannels :
        SaveChannelBasic(c, id, LoginOf(id), 1) /\ UNCHANGED <<passVars, clientVars>>

CallUpsertCollaborationEdge ==
    \E c \in CallConns, a \in PairChannels, b \in PairChannels,
       ts \in Timestamps \cup {NULL}, d \in Durations :
        /\ EdgeUpserts(View(c)) < MaxCount
        /\ UpsertCollaborationEdge(c, a, b, ts, d)
        /\ UNCHANGED <<passVars, clientVars>>

CallUpsertCollaborationContext ==
    \E c \in CallConns, a \in PairChannels, b \in PairChannels,
       g \in GameIds, n \in GameNames, d \in {NULL, 50} :
        /\ ContextUpserts(View(c)) < MaxCtxCount
        /\ UpsertCollaborationContext(c, a, b, g, n, d)
        /\ UNCHANGED <<passVars, clientVars>>

CallCommit == \E c \in CallConns : Commit(c) /\ UNCHANGED <<passVars, clientVars>>
CallRollback == \E c \in CallConns : Rollback(c) /\ UNCHANGED <<passVars, clientVars>>
ClockTick == Tick /\ UNCHANGED <<passVars, clientVars>>

Next ==
    \/ CallSaveChannelBasic
    \/ CallUpsertCollaborationEdge
    \/ CallCommit
    \/ CallRollback
    \/ ClockTick

Spec == Init /\ [][Next]_vars

(***************************************************************************)
(* Properties of the edge table, checked under Spec.                       *)
(***************************************************************************)
\* the states of the database a connection can read
Snapshots == {committed, pending}

RowsOfPair(db, a, b) == {k \in DOMAIN db.collabs : {k[1], k[2]} = {a, b}}

\* C1: after any sequence of upsert_collaboration_edge calls on two distinct
\* channels, in either argument order, the store holds exactly one row for the
\* pair, whose collaboration_count is the number of calls and whose total
\* duration is the sum of the durations passed (None counting 0); and a call
\* gives the same table whichever way round its two ids are passed.
C1_OneRowCountsCalls ==
    \A db \in Snapshots :
        /\ \A a \in PairChannels, b \in PairChannels :
              a # b =>
                IF {a, b} \in DOMAIN db.observed
                THEN /\ Cardinality(RowsOfPair(db, a, b)) = 1
                     /\ \A k \in RowsOfPair(db, a, b) :
                           /\ db.collabs[k].collaboration_count
                                = db.observed[{a, b}].calls
                           /\ db.collabs[k].total_collaboration_duration_seconds
                                = db.observed[{a, b}].duration
                ELSE RowsOfPair(db, a, b) = {}
        /\ \A a \in PairChannels, b \in PairChannels,
              ts \in Timestamps \cup {NULL}, d \in Durations :
              EdgeUpserted(db, a, b, ts, d) = EdgeUpserted(db, b, a, ts, d)

\* two calls in opposite orders, 100 s and 50 s, merged into one row
C1_Witness ==
    /\ lastOp.op = "upsert_collaboration_edge"
    /\ ~lastOp.raised
    /\ StrLess(lastOp.b, lastOp.a)
    /\ lastOp.d = 50
    /\ {ChA, ChB} \in DOMAIN pending.observed
    /\ pending.observed[{ChA, ChB}].calls = 2
    /\ pending.collabs[<<ChA, ChB>>].total_collaboration_duration_seconds = 150

\* C6: once a Collaborations row has a non-null first_collaboration_timestamp,
\* no later upsert_collaboration_edge on the pair changes it, whatever
\* timestamp (earlier, equal, later, none) the call carries.
C6_FirstTimestampWriteOnce ==
    [][\A c \in Conns :
         (lastOp'.op = "upsert_collaboration_edge" /\ lastOp'.conn = c) =>
            \A k \in DOMAIN View(c).collabs :
               View(c).collabs[k].first_collaboration_timestamp # NULL =>
                  /\ k \in DOMAIN View(c)'.collabs
                  /\ View(c)'.collabs[k].first_collaboration_timestamp
                       = View(c).collabs[k].first_collaboration_timestamp]_vars

\* a row first seen at 2 was upserted again with the earlier timestamp 1
C6_Witness ==
    /\ lastOp.op = "upsert_collaboration_edge"
    /\ ~lastOp.raised
    /\ lastOp.ts = 1
    /\ <<ChA, ChB>> \in DOMAIN pending.collabs
    /\ pending.collabs[<<ChA, ChB>>].collaboration_count = 2
    /\ pending.collabs[<<ChA, ChB>>].first_collaboration_timestamp = 2

\* C7: after any non-empty sequence of upsert_collaboration_edge calls on a
\* pair, latest_collaboration_timestamp is the greatest timestamp those calls
\* carried, whether or not the first call carried one.
C7_LatestIsMaximum ==
    \A db \in Snapshots :
        \A k \in DOMAIN db.collabs :
            {k[1], k[2]} \in DOMAIN db.observed =>
                db.collabs[k].latest_collaboration_timestamp
                    = db.observed[{k[1], k[2]}].latest

\* C9: upsert_collaboration_edge with the same id for both arguments leaves
\* the store unchanged: no row is created, no row is modified.
C9_SelfPairIsNoOp ==
    [][(lastOp'.op = "upsert_collaboration_edge" /\ lastOp'.a = lastOp'.b) =>
          UNCHANGED <<committed, pending, writer>>]_vars

\* a self-pair call on an existing channel, with an edge row present
C9_Witness ==
    /\ lastOp.op = "upsert_collaboration_edge"
    /\ lastOp.a = lastOp.b
    /\ lastOp.a \in DOMAIN View(lastOp.conn).channels
    /\ DOMAIN View(lastOp.conn).collabs # {}

\* C32: a pending collaboration-edge upsert or processed-marker update
\* becomes durable only through the caller's own commit: a store operation
\* called on the same connection in between (save_channel_basic,
\* save_channel_details, save_videos, save_categories,
\* update_category_scan_time, update_channel_video_fetch_time) neither
\* commits nor rolls back what is pending.
C32_OnlyCallerCommitsPending ==
    [][(/\ lastOp'.op \in {"save_channel_basic", "save_channel_details",
                          "save_videos", "save_categories",
                          "update_category_scan_time",
                          "update_channel_video_fetch_time"}
        /\ now' = now
        /\ writer = lastOp'.conn) =>
          /\ writer' = writer
          /\ committed'.collabs = committed.collabs
          /\ pending'.collabs = pending.collabs]_vars

(***************************************************************************)
(* SpecContext: the edge table and the per-game context table together.    *)
(***************************************************************************)
ContextCallUpsertCollaborationEdge ==
    \E c \in CallConns, a \in PairChannels, b \in PairChannels :
        /\ EdgeUpserts(View(c)) < MaxCtxCount
        /\ UpsertCollaborationEdge(c, a, b, 1, 50)
        /\ UNCHANGED <<passVars, clientVars>>

NextContext ==
    \/ CallSaveChannelBasic
    \/ ContextCallUpsertCollaborationEdge
    \/ CallUpsertCollaborationContext
    \/ CallCommit
    \/ CallRollback
    \/ ClockTick

SpecContext == Init /\ [][NextContext]_vars

\* C8: every row of Collaborations and of CollaborationContext has
\* channel_id_1 strictly less than channel_id_2, whatever the upserts were
\* called with: no mirrored pair and no self-pair is stored.
C8_CanonicalOrderEverywhere ==
    \A db \in Snapshots :
        /\ \A k \in DOMAIN db.collabs : StrLess(k[1], k[2])
        /\ \A k \in DOMAIN db.context : StrLess(k[1], k[2])

(***************************************************************************)
(* SpecVideos: videos, their processed marker and the writes around them.  *)
(***************************************************************************)
\* the LIMIT the batch query is called with
MaxBatch == 2

VideoInput(id, user_id, title, published_at) ==
    [id |-> id, user_id |-> user_id, title |-> title, description |-> title,
     published_at |-> published_at, created_at |-> published_at,
     duration |-> 50, game_id |-> 7]

\* v1 of channel "10" in two versions, v2 of channel "9", v3 of a channel never saved
VideoInputs ==
    {VideoInput("v1", ChA, 1, 1), VideoInput("v1", ChA, 2, BAD),
     VideoInput("v2", ChB, 1, NULL), VideoInput("v3", ChC, 1, 2)}

VideoBatches == {<<v>> : v \in VideoInputs} \cup
    {<<v, w>> : v \in {VideoInput("v1", ChA, 1, 1)},
                w \in {VideoInput("v2", ChB, 1, NULL), VideoInput("v3", ChC, 1, 2)}}

CallSaveVideos ==
    \E c \in CallConns, videos \in VideoBatches :
        SaveVideos(c, videos) /\ UNCHANGED <<passVars, clientVars>>

CallMarkVideoMentionsProcessed ==
    \E c \in CallConns, v \in {"v1", "v2", "v3"} :
        MarkVideoMentionsProcessed(c, v) /\ UNCHANGED <<passVars, clientVars>>

VideosCallUpsertCollaborationEdge ==
    \E c \in CallConns, a \in PairChannels, b \in PairChannels :
        /\ EdgeUpserts(View(c)) < 1
        /\ UpsertCollaborationEdge(c, a, b, 1, 50)
        /\ UNCHANGED <<passVars, clientVars>>

NextVideos ==
    \/ CallSaveChannelBasic
    \/ CallSaveVideos
    \/ CallMarkVideoMentionsProcessed
    \/ VideosCallUpsertCollaborationEdge
    \/ CallCommit
    \/ CallRollback
    \/ ClockTick

SpecVideos == Init /\ [][NextVideos]_vars

IsProcessed(db, v) ==
    v \in DOMAIN db.videos /\ db.videos[v].mentions_processed_at # NULL

C12_SaveVideosKeepsStoredRows ==
    [][\A c \in Conns :
         (lastOp'.op = "save_videos" /\ lastOp'.conn = c) =>
            /\ ~lastOp'.failed =>
                  \A id \in DOMAIN View(c).videos :
                     /\ id \in DOMAIN View(c)'.videos
                     /\ View(c)'.videos[id] = View(c).videos[id]
            /\ (\A i \in DOMAIN lastOp'.videos :
                    lastOp'.videos[i].id \in DOMAIN View(c).videos) =>
                  /\ ~lastOp'.failed
                  /\ View(c)'.videos = View(c).videos
            /\ (lastOp.op = "save_videos" /\ lastOp.conn = c
                    /\ lastOp.videos = lastOp'.videos) =>
                  View(c)'.videos = View(c).videos]_vars

\* v1, stored at an earlier time and marked, was saved again with another
\* title and an unparseable publication time
C12_Witness ==
    /\ lastOp.op = "save_videos"
    /\ ~lastOp.failed
    /\ lastOp.videos = <<VideoInput("v1", ChA, 2, BAD)>>
    /\ "v1" \in DOMAIN committed.videos
    /\ committed.videos["v1"].title = 1
    /\ committed.videos["v1"].published_at = 1
    /\ committed.videos["v1"].fetched_at < now
    /\ committed.videos["v1"].mentions_processed_at # NULL

(***************************************************************************)
(* SpecChannels: channel stubs and channel details.                        *)
(***************************************************************************)
ChannelDetails(id, login, profile, created_at) ==
    [id |-> id, login |-> login, display_name |-> profile, description |-> profile,
     profile_image_url |-> profile, broadcaster_type |-> profile,
     view_count |-> IF profile = 1 THEN NULL ELSE profile,
     follower_count |-> IF profile = 1 THEN NULL ELSE 5, created_at |-> created_at]

DetailsInputs ==
    {ChannelDetails(id, login, profile, created_at) :
        id \in PairChannels, login \in {1, 3}, profile \in {1, 2},
        created_at \in {NULL, BAD, 1, 2}}

ChannelsCallSaveChannelBasic ==
    \E c \in CallConns, id \in PairChannels, login \in {1, 3} :
        SaveChannelBasic(c, id, login, 1) /\ UNCHANGED <<passVars, clientVars>>

CallSaveChannelDetails ==
    \E c \in CallConns, channel_details \in DetailsInputs :
        SaveChannelDetails(c, channel_details) /\ UNCHANGED <<passVars, clientVars>>

NextChannels ==
    \/ ChannelsCallSaveChannelBasic
    \/ CallSaveChannelDetails
    \/ ClockTick

SpecChannels == Init /\ [][NextChannels]_vars

\* C10: once a channel row has a non-null created_at, a later
\* save_channel_details carrying a different parseable created_at leaves the
\* stored created_at unchanged, while display_name, description,
\* follower_count and the other mutable profile fields take the values of
\* the latest call.
C10_CreatedAtKeptProfileOverwritten ==
    [][(/\ lastOp'.op = "save_channel_details"
        /\ ~lastOp'.raised
        /\ lastOp'.details.id \in DOMAIN committed.channels
        /\ committed.channels[lastOp'.details.id].created_at # NULL
        /\ ParseTimestamp(lastOp'.details.created_at) # NULL
        /\ ParseTimestamp(lastOp'.details.created_at)
              # committed.channels[lastOp'.details.id].created_at)
       => LET id == lastOp'.details.id
              new == committed'.channels[id]
          IN  /\ new.created_at = committed.channels[id].created_at
              /\ new.display_name = lastOp'.details.display_name
              /\ new.description = lastOp'.details.description
              /\ new.follower_count = lastOp'.details.follower_count
              /\ new.profile_image_url = lastOp'.details.profile_image_url
              /\ new.broadcaster_type = lastOp'.details.broadcaster_type]_vars

\* C11: save_channel_basic on an id that already has a Channels row leaves
\* every column of that row as it was (login, display_name, the profile
\* fields, created_at, first_seen, last_fetched_details, last_fetched_videos),
\* in the committed store and in what the calling connection reads, whether
\* the row is a stub or holds full details.
C11_ExistingChannelUntouched ==
    [][\A c \in Conns :
         (lastOp'.op = "save_channel_basic" /\ lastOp'.conn = c) =>
            /\ lastOp'.id \in DOMAIN View(c).channels =>
                  /\ lastOp'.id \in DOMAIN View(c)'.channels
                  /\ View(c)'.channels[lastOp'.id] = View(c).channels[lastOp'.id]
            /\ lastOp'.id \in DOMAIN committed.channels =>
                  /\ lastOp'.id \in DOMAIN committed'.channels
                  /\ committed'.channels[lastOp'.id]
                        = committed.channels[lastOp'.id]]_vars

\* a stub call with another login on a row that holds full details
C11_Witness ==
    /\ lastOp.op = "save_channel_basic"
    /\ lastOp.result
    /\ lastOp.id \in DOMAIN committed.channels
    /\ committed.channels[lastOp.id].description # NULL
    /\ committed.channels[lastOp.id].created_at # NULL
    /\ committed.channels[lastOp.id].login # lastOp.login

\* C30: if no Channels row has the given id, then after
\* save_channel_basic(id, login, display_name) has returned True a Channels
\* row with that id exists, whatever other rows the table holds.
C30_ReturnedTrueMeansStored ==
    [][(/\ lastOp'.op = "save_channel_basic"
        /\ lastOp'.result
        /\ now' = now
        /\ lastOp'.id \notin DOMAIN committed.channels)
       => lastOp'.id \in DOMAIN committed'.channels]_vars

(***************************************************************************)
(* The mention-processing pass.  Its code is not in src/; it is modelled   *)
(* from the specification (sections 3 and 5): take a batch from            *)
(* get_unprocessed_videos_batch, and for each video upsert the edge and    *)
(* the context of every channel its text mentions, set the processed       *)
(* marker, and commit; a failure, a crash or a cancellation rolls the open *)
(* transaction back.  Each worker runs on its own connection.              *)
(***************************************************************************)
\* the channels a video's text mentions, after extraction and resolution
MentionsOf(title) ==
    IF title = 1 THEN {ChB} ELSE IF title = 2 THEN {ChA, ChC} ELSE {}

Orders(S) ==
    {s \in [1..Cardinality(S) -> S] :
        \A i \in DOMAIN s, j \in DOMAIN s : i # j => s[i] # s[j]}

\* the worker starts on the videos rest, or ends the pass when none is left
PassTurnsTo(w, rest) ==
    /\ UNCHANGED clientVars
    /\ batch' = [batch EXCEPT ![w] = rest]
    /\ IF rest = <<>>
       THEN /\ pc' = [pc EXCEPT ![w] = "idle"]
            /\ todo' = [todo EXCEPT ![w] = <<>>]
       ELSE \E order \in Orders(MentionsOf(View(w)'.videos[Head(rest)].title)) :
               /\ todo' = [todo EXCEPT ![w] = order]
               /\ pc' = [pc EXCEPT ![w] = IF order = <<>> THEN "mark" ELSE "edge"]

PassFetch(w) ==
    /\ pc[w] = "idle"
    /\ \E s \in GetUnprocessedVideosBatch(View(w), MaxBatch) :
          /\ s # <<>>
          /\ lastOp' = [op |-> "get_unprocessed_videos_batch", conn |-> w,
                        result |-> s, raised |-> FALSE,
                        again |-> IF lastOp.op = "rollback" /\ lastOp.conn = w
                                  THEN {v \in lastOp.videos : \E i \in DOMAIN s : s[i] = v}
                                  ELSE {}]
          /\ UNCHANGED <<committed, pending, writer, now, done>>
          /\ PassTurnsTo(w, s)

PassUpsertEdge(w) ==
    /\ pc[w] = "edge"
    /\ LET video == View(w).videos[Head(batch[w])]
       IN  UpsertCollaborationEdge(w, video.channel_id, Head(todo[w]),
                                   video.published_at, video.duration)
    /\ pc' = [pc EXCEPT ![w] = IF lastOp'.raised THEN "failed" ELSE "context"]
    /\ UNCHANGED <<batch, todo, done, clientVars>>

PassUpsertContext(w) ==
    /\ pc[w] = "context"
    /\ LET video == View(w).videos[Head(batch[w])]
       IN  UpsertCollaborationContext(w, video.channel_id, Head(todo[w]),
                                      video.game_id, video.game_id, video.duration)
    /\ IF lastOp'.raised
       THEN pc' = [pc EXCEPT ![w] = "failed"] /\ todo' = todo
       ELSE /\ todo' = [todo EXCEPT ![w] = Tail(todo[w])]
            /\ pc' = [pc EXCEPT ![w] = IF Tail(todo[w]) = <<>> THEN "mark" ELSE "edge"]
    /\ UNCHANGED <<batch, done, clientVars>>

PassMark(w) ==
    /\ pc[w] = "mark"
    /\ MarkVideoMentionsProcessed(w, Head(batch[w]))
    /\ IF lastOp'.raised
       THEN pc' = [pc EXCEPT ![w] = "failed"] /\ done' = done
       ELSE /\ pc' = [pc EXCEPT ![w] = "marked"]
            /\ done' = [done EXCEPT ![w] = done[w] \cup {Head(batch[w])}]
    /\ UNCHANGED <<batch, todo, clientVars>>

\* the transaction is committed after a video's marker
PassCommit(w) ==
    /\ pc[w] = "marked"
    /\ Commit(w)
    /\ done' = [done EXCEPT ![w] = {}]
    /\ PassTurnsTo(w, Tail(batch[w]))

\* or the next video of the batch joins the same transaction
PassContinue(w) ==
    /\ pc[w] = "marked"
    /\ Tail(batch[w]) # <<>>
    /\ UNCHANGED <<committed, pending, writer, now, lastOp, done>>
    /\ PassTurnsTo(w, Tail(batch[w]))

\* the videos whose edges or marker the open transaction of w holds
OpenVideos(w) == done[w] \cup {Head(batch[w])}

\* an error, a crash or a cancellation: the open transaction is rolled back
PassRollback(w) ==
    /\ pc[w] # "idle"
    /\ ConnRollback(w)
    /\ now' = now
    /\ lastOp' = [op |-> "rollback", conn |-> w, raised |-> FALSE,
                  videos |-> OpenVideos(w)]
    /\ pc' = [pc EXCEPT ![w] = "idle"]
    /\ batch' = [batch EXCEPT ![w] = <<>>]
    /\ todo' = [todo EXCEPT ![w] = <<>>]
    /\ done' = [done EXCEPT ![w] = {}]
    /\ UNCHANGED clientVars

PassVideo(id, user_id, title, published_at, duration) ==
    [id |-> id, user_id |-> user_id, title |-> title, description |-> title,
     published_at |-> published_at, created_at |-> published_at,
     duration |-> duration, game_id |-> 7]

\* v1 of "10" mentions "9"; v2 of "9" mentions "10" and "11"; v3 mentions nobody
PassVideos ==
    {PassVideo("v1", ChA, 1, 1, 50), PassVideo("v2", ChB, 2, 2, 100),
     PassVideo("v3", ChC, 0, NULL, NULL)}

\* the crawl stores new videos between two passes of a worker
PassSaveVideos(w, videos) ==
    /\ pc[w] = "idle"
    /\ \E v \in videos : SaveVideos(w, <<v>>)
    /\ UNCHANGED <<passVars, clientVars>>

\* the three channels are stored before the first pass
InitPass ==
    /\ now = 1
    /\ committed = InsertOrIgnoreChannel(InsertOrIgnoreChannel(InsertOrIgnoreChannel(
                       EmptyDb, ChA, 1, 1), ChB, 2, 1), ChC, 3, 1)
    /\ pending = committed
    /\ writer = NoConn
    /\ lastOp = [op |-> "save_channel_basic", conn |-> "c1", id |-> ChC,
                 login |-> 3, raised |-> FALSE, result |-> TRUE]
    /\ pc = [w \in Conns |-> "idle"]
    /\ batch = [w \in Conns |-> <<>>]
    /\ todo = [w \in Conns |-> <<>>]
    /\ done = [w \in Conns |-> {}]
    /\ ClientInit

PassStep(w, videos) ==
    \/ PassSaveVideos(w, videos)
    \/ PassFetch(w)
    \/ PassUpsertEdge(w)
    \/ PassUpsertContext(w)
    \/ PassMark(w)
    \/ PassCommit(w)
    \/ PassContinue(w)
    \/ PassRollback(w)

\* SpecPass: one worker, pass after pass
NextPass == PassStep("c1", PassVideos) \/ ClockTick
SpecPass == InitPass /\ [][NextPass]_vars

\* SpecPassConcurrent: two workers on the same store
ConcurrentVideos == {v \in PassVideos : v.id \in {"v1", "v2"}}
NextPassConcurrent == (\E w \in Conns : PassStep(w, ConcurrentVideos)) \/ ClockTick
SpecPassConcurrent == InitPass /\ [][NextPassConcurrent]_vars

(***************************************************************************)
(* Properties of the mention pass.                                         *)
(***************************************************************************)
AllPairs == {P \in SUBSET ChannelIds : Cardinality(P) = 2}

\* the pairs a stored video makes its channel appear in
PairsOf(db, v) ==
    {{db.videos[v].channel_id, m} :
        m \in MentionsOf(db.videos[v].title) \ {db.videos[v].channel_id}}

VideosWith(db, P) == {v \in DOMAIN db.videos : P \in PairsOf(db, v)}
ProcessedWith(db, P) == {v \in VideosWith(db, P) : IsProcessed(db, v)}

RECURSIVE SecondsOf(_, _)
SecondsOf(db, videos) ==
    IF videos = {} THEN 0
    ELSE LET v == CHOOSE x \in videos : TRUE
         IN  EffectiveDuration(db.videos[v].duration) + SecondsOf(db, videos \ {v})

EdgeRows(db, P) == {k \in DOMAIN db.collabs : {k[1], k[2]} = P}
ContextRows(db, P) == {k \in DOMAIN db.context : {k[1], k[2]} = P}
CountOfPair(db, P) == SumOver(db.collabs, EdgeRows(db, P), "collaboration_count")
SecondsOfPair(db, P) ==
    SumOver(db.collabs, EdgeRows(db, P), "total_collaboration_duration_seconds")
ContextCountOfPair(db, P) ==
    SumOver(db.context, ContextRows(db, P), "context_collaboration_count")

\* the committed edges are those of the videos whose marker is committed
EdgesMatchMarkers ==
    \A P \in AllPairs :
        /\ CountOfPair(committed, P) = Cardinality(ProcessedWith(committed, P))
        /\ SecondsOfPair(committed, P) = SecondsOf(committed, ProcessedWith(committed, P))
        /\ ContextCountOfPair(committed, P) = Cardinality(ProcessedWith(committed, P))

WorkerRollsBack(w) ==
    /\ pc[w] # "idle"
    /\ pc'[w] = "idle"
    /\ lastOp'.op = "rollback"
    /\ lastOp'.conn = w

\* C2: upsert_collaboration_edge, upsert_collaboration_context and
\* mark_video_mentions_processed neither commit nor roll back; with a video's
\* upserts and marker in one transaction, every committed state holds all of
\* the video's edge updates with its marker or none of them; the caller's
\* rollback restores the committed edges and leaves the marker null.
C2_EdgesAndMarkerCommitTogether ==
    /\ []EdgesMatchMarkers
    /\ [][/\ lastOp'.op \in {"upsert_collaboration_edge",
                             "upsert_collaboration_context",
                             "mark_video_mentions_processed"} =>
                /\ committed' = committed
                /\ writer = lastOp'.conn => writer' = writer
          /\ \A w \in Conns :
                WorkerRollsBack(w) =>
                    /\ committed' = committed
                    /\ View(w)' = committed
                    /\ \A v \in OpenVideos(w) : ~IsProcessed(committed', v)]_vars

\* v1 is committed with its edge; the transaction holding v2's two edges and
\* its marker has just been rolled back
C2_Witness ==
    /\ lastOp.op = "rollback"
    /\ lastOp.videos = {"v2"}
    /\ IsProcessed(committed, "v1")
    /\ CountOfPair(committed, {ChA, ChB}) = 1
    /\ "v2" \in Unprocessed(committed)

\* C3: over any sequence of passes, each committed or rolled back as a
\* whole, a video adds to the committed count and duration of a pair at most
\* once; and a video whose pass was rolled back is unprocessed again and in a
\* batch get_unprocessed_videos_batch returns.
C3_CountedAtMostOnce ==
    /\ [](\A P \in AllPairs :
            /\ CountOfPair(committed, P) <= Cardinality(VideosWith(committed, P))
            /\ SecondsOfPair(committed, P) <= SecondsOf(committed, VideosWith(committed, P)))
    /\ [][\A w \in Conns :
            WorkerRollsBack(w) =>
                \A v \in OpenVideos(w) :
                    /\ v \in Unprocessed(View(w)')
                    /\ \E s \in GetUnprocessedVideosBatch(View(w)', MaxBatch) :
                          \E i \in DOMAIN s : s[i] = v]_vars

\* the pass after a rollback got the rolled-back video again, while the pair
\* of v1 and v2 already counts both of them
C3_Witness ==
    /\ lastOp.op = "get_unprocessed_videos_batch"
    /\ lastOp.again # {}
    /\ CountOfPair(committed, {ChA, ChB}) = 2

\* C4: with two or more workers processing mentions concurrently, each on
\* its own connection, every video is counted at most once in a pair's
\* collaboration_count, and when all videos are processed the count of a pair
\* is the number of distinct videos observed for it.
C4_ConcurrentWorkersCountOnce ==
    \A P \in AllPairs :
        /\ CountOfPair(committed, P) <= Cardinality(VideosWith(committed, P))
        /\ (writer = NoConn /\ Unprocessed(committed) = {} /\ \A w \in Conns : pc[w] = "idle")
              => CountOfPair(committed, P) = Cardinality(VideosWith(committed, P))

(***************************************************************************)
(* The API client (src/twitch_api.py): _authenticate, _get_headers and     *)
(* _make_request.  Time is counted in seconds; an HTTP exchange takes no   *)
(* time, the sleeps take their length.                                     *)
(***************************************************************************)
\* the calls of _make_request one behaviour makes
MaxCalls == 2

\* expires_in - 300: the buffer taken off the reported lifetime
TokenMargin == 300
\* data.get('expires_in', 3600)
DefaultExpiresIn == 3600
\* time.sleep(1) between the two attempts of _get_headers
AuthRetryPause == 1
\* wait_time = 15 when the reset header is missing or invalid
FallbackWait == 15
\* max_retries=3, the default every caller uses
DefaultMaxRetries == 3

\* the lifetimes the auth endpoint reports (NULL: no expires_in in the body)
ExpiresIn == {NULL, 300, 302}

\* the outcomes of the POST to the auth endpoint: a body with a token, a
\* network or HTTP error, a body without 'access_token'
AuthResponses ==
    {[kind |-> "ok", expires_in |-> e] : e \in ExpiresIn} \cup
    {[kind |-> "error", expires_in |-> NULL],
     [kind |-> "no_token", expires_in |-> NULL]}

ReportedLifetime(resp) ==
    IF resp.expires_in = NULL THEN DefaultExpiresIn ELSE resp.expires_in

\* mutant: the buffer is not taken off
Authenticate_NoMargin(resp, t) ==
    IF resp.kind = "ok"
    THEN [ok |-> TRUE, access_token |-> TOKEN,
          token_expires_at |-> t + ReportedLifetime(resp)]
    ELSE [ok |-> FALSE, access_token |-> NULL,
          token_expires_at |-> token_expires_at]

\* mutant: a failed exchange keeps the token it found
Authenticate_KeepsToken(resp, t) ==
    IF resp.kind = "ok"
    THEN [ok |-> TRUE, access_token |-> TOKEN,
          token_expires_at |-> t + ReportedLifetime(resp) - TokenMargin]
    ELSE [ok |-> FALSE, access_token |-> TOKEN,
          token_expires_at |-> token_expires_at]

\* _authenticate at time t: the token and expiry it leaves, and its result
Authenticate(resp, t) ==
    IF resp.kind = "ok"
    THEN [ok |-> TRUE, access_token |-> TOKEN,
          token_expires_at |-> t + ReportedLifetime(resp) - TokenMargin]
    ELSE [ok |-> FALSE, access_token |-> NULL,
          token_expires_at |-> token_expires_at]

\* the exchange the trace remembers: when it succeeded and the lifetime reported
Issued(resp, t) ==
    IF Authenticate(resp, t).ok
    THEN [t |-> t, ttl |-> ReportedLifetime(resp)]
    ELSE NotIssued

\* _get_headers: not self._access_token or now >= self._token_expires_at
NeedsToken == access_token = NULL \/ now >= token_expires_at

\* _make_request(method, endpoint, max_retries): a call starts
MakeRequest(max_retries) ==
    /\ request.pc \in {"idle", "returned"}
    /\ trace.calls < MaxCalls
    /\ request' = [pc |-> "loop", retries |-> 0, max_retries |-> max_retries,
                   response |-> NULL, result |-> "none"]
    /\ trace' = [trace EXCEPT !.calls = @ + 1, !.sent = 0, !.exchanges = 0,
                              !.earliest = NULL, !.unauthorized = 0,
                              !.waited = FALSE]
    /\ lastOp' = [op |-> "_make_request", conn |-> NoConn, raised |-> FALSE]
    /\ UNCHANGED <<access_token, token_expires_at, now>>

\* while retries <= max_retries fails: "failed after max_retries retries"
RequestExhausted ==
    /\ request.pc = "loop"
    /\ request.retries > request.max_retries
    /\ request' = [request EXCEPT !.pc = "returned", !.result = "none"]
    /\ lastOp' = [op |-> "exhausted", conn |-> NoConn, raised |-> FALSE]
    /\ UNCHANGED <<access_token, token_expires_at, now, trace>>

\* _get_headers up to its first _authenticate
GetHeaders ==
    /\ request.pc = "loop"
    /\ request.retries <= request.max_retries
    /\ now' = now
    /\ IF ~NeedsToken
       THEN /\ request' = [request EXCEPT !.pc = "send"]
            /\ trace' = [trace EXCEPT !.exchanges = 0]
            /\ lastOp' = [op |-> "_get_headers", conn |-> NoConn,
                          raised |-> FALSE, exchanged |-> FALSE]
            /\ UNCHANGED <<access_token, token_expires_at>>
       ELSE \E resp \in AuthResponses :
               /\ access_token' = Authenticate(resp, now).access_token
               /\ token_expires_at' = Authenticate(resp, now).token_expires_at
               /\ request' = [request EXCEPT !.pc =
                      IF Authenticate(resp, now).ok THEN "send" ELSE "reauth"]
               /\ trace' = [trace EXCEPT !.exchanges = 1,
                                         !.issued = Issued(resp, now)]
               /\ lastOp' = [op |-> "_get_headers", conn |-> NoConn,
                             raised |-> FALSE, exchanged |-> TRUE]

\* _get_headers after a failed _authenticate: the pause, the second attempt,
\* and the exception that _make_request turns into a None result
GetHeadersRetry ==
    /\ request.pc = "reauth"
    /\ now' = now + AuthRetryPause
    /\ \E resp \in AuthResponses :
          /\ access_token' = Authenticate(resp, now').access_token
          /\ token_expires_at' = Authenticate(resp, now').token_expires_at
          /\ trace' = [trace EXCEPT !.exchanges = @ + 1,
                                    !.issued = Issued(resp, now')]
          /\ IF Authenticate(resp, now').ok
             THEN /\ request' = [request EXCEPT !.pc = "send"]
                  /\ lastOp' = [op |-> "_get_headers retry", conn |-> NoConn,
                                raised |-> FALSE, exchanged |-> TRUE]
             ELSE /\ request' = [request EXCEPT !.pc = "returned",
                                                !.result = "none"]
                  /\ lastOp' = [op |-> "_get_headers retry", conn |-> NoConn,
                                raised |-> TRUE, exchanged |-> TRUE]

\* the reset instants a 429 may carry at time t
ResetAhead == {-5, 3}

\* what self._session.request gives at time t: a response with a status
\* (a 200 with a JSON body or with one that does not parse, a 429 with or
\* without a usable Ratelimit-Reset), a timeout, a connection error
Responses(t) ==
    {[kind |-> "http", status |-> 200, reset |-> NULL, body |-> b] :
        b \in {"json", "garbage"}} \cup
    {[kind |-> "http", status |-> 429, reset |-> r, body |-> "garbage"] :
        r \in {NULL, BAD} \cup {t + a : a \in ResetAhead}} \cup
    {[kind |-> "http", status |-> st, reset |-> NULL, body |-> "garbage"] :
        st \in {401, 404, 500}} \cup
    {[kind |-> k, status |-> NULL, reset |-> NULL, body |-> "none"] :
        k \in {"timeout", "connection_error"}}

\* mutant: the wait ignores the reset header
WaitTime_OneSecond(reset, t) == 1

\* wait_time of the 429 branch
WaitTime(reset, t) ==
    IF reset = NULL \/ reset = BAD
    THEN FallbackWait
    ELSE IF reset - t + 1 > 1 THEN reset - t + 1 ELSE 1

\* the instant the 429 asks to wait for
ResetInstant(reset, t) ==
    IF reset = NULL \/ reset = BAD THEN t + FallbackWait ELSE reset

\* the request is sent and the iteration of the loop goes on to its end
Sent(resp) ==
    /\ trace' = [trace EXCEPT !.sent = @ + 1,
                              !.earliest = IF resp.kind = "http" /\ resp.status = 429
                                           THEN ResetInstant(resp.reset, now)
                                           ELSE NULL,
                              !.unauthorized =
                                 IF request'.pc = "loop" /\ access_token' = NULL
                                 THEN @ + 1 ELSE @,
                              !.issued = IF access_token' = NULL THEN NotIssued ELSE @]
    /\ lastOp' = [op |-> "request", conn |-> NoConn, raised |-> FALSE,
                  resp |-> resp, at |-> now, earliest |-> trace.earliest]

\* return response.json()
ReturnsBody(resp) ==
    /\ request' = [request EXCEPT !.pc = "returned", !.response = resp.status,
                                  !.result = resp.body]
    /\ UNCHANGED <<access_token, token_expires_at, now>>

\* the 429 branch: sleep, retries += 1, continue
RateLimited(resp) ==
    /\ now' = now + WaitTime(resp.reset, now)
    /\ request' = [request EXCEPT !.pc = "loop", !.response = resp.status,
                                  !.retries = @ + 1]
    /\ UNCHANGED <<access_token, token_expires_at>>

\* mutant: a timeout is retried without being counted
TimedOut_NotCounted ==
    /\ now' = now + 2 ^ request.retries
    /\ request' = [request EXCEPT !.pc = "loop"]
    /\ UNCHANGED <<access_token, token_expires_at>>

\* except Timeout: sleep 2 ** retries, retries += 1; response keeps the
\* value an earlier iteration gave it
TimedOut ==
    /\ now' = now + 2 ^ request.retries
    /\ request' = [request EXCEPT !.pc = "loop", !.retries = @ + 1]
    /\ UNCHANGED <<access_token, token_expires_at>>

\* mutant: a server error is retried like a 401
IsUnauthorized_OrServerError(status) == status = 401 \/ status = 500

\* response.status_code == 401
IsUnauthorized(status) == status = 401

\* except RequestException: raise_for_status on a 4xx/5xx, a body that does
\* not parse, or a connection error; response is the one of this iteration
\* or, when the request raised, the one left by an earlier iteration
RequestFailed(response) ==
    /\ now' = now
    /\ IF response # NULL /\ IsUnauthorized(response)
       THEN /\ access_token' = NULL
            /\ token_expires_at' = now
            /\ IF request.retries < request.max_retries
               THEN request' = [request EXCEPT !.pc = "loop",
                                  !.response = response, !.retries = @ + 1]
               ELSE request' = [request EXCEPT !.pc = "returned",
                                  !.response = response, !.result = "none"]
       ELSE /\ request' = [request EXCEPT !.pc = "returned",
                                          !.response = response, !.result = "none"]
            /\ UNCHANGED <<access_token, token_expires_at>>

\* one iteration of the loop of _make_request from the request on
SendRequest(resp) ==
    /\ request.pc = "send"
    /\ IF resp.kind = "timeout" THEN TimedOut
       ELSE IF resp.kind = "connection_error" THEN RequestFailed(request.response)
       ELSE IF resp.status = 429 THEN RateLimited(resp)
       ELSE IF resp.status >= 400 \/ resp.body # "json" THEN RequestFailed(resp.status)
       ELSE ReturnsBody(resp)
    /\ Sent(resp)

\* the time between two calls
IdleTimes == {2}

ClientWaits ==
    /\ request.pc = "returned"
    /\ ~trace.waited
    /\ trace.calls < MaxCalls
    /\ \E d \in IdleTimes : now' = now + d
    /\ trace' = [trace EXCEPT !.waited = TRUE]
    /\ lastOp' = [op |-> "wait", conn |-> NoConn, raised |-> FALSE]
    /\ UNCHANGED <<access_token, token_expires_at, request>>

StoreUntouched == UNCHANGED <<committed, pending, writer, passVars, fetch, scanLoop>>

CallMakeRequest ==
    \E max_retries \in {DefaultMaxRetries} :
        MakeRequest(max_retries) /\ StoreUntouched
CallRequestExhausted == RequestExhausted /\ StoreUntouched
CallGetHeaders == GetHeaders /\ StoreUntouched
CallGetHeadersRetry == GetHeadersRetry /\ StoreUntouched
CallSendRequest == \E resp \in Responses(now) : SendRequest(resp) /\ StoreUntouched
CallClientWaits == ClientWaits /\ StoreUntouched

NextClient ==
    \/ CallMakeRequest
    \/ CallRequestExhausted
    \/ CallGetHeaders
    \/ CallGetHeadersRetry
    \/ CallSendRequest
    \/ CallClientWaits

SpecClient == Init /\ [][NextClient]_vars

\* SpecClientFair: a call that can take a step takes one
SpecClientFair == Init /\ [][NextClient]_vars /\ WF_vars(NextClient)

(***************************************************************************)
(* Properties of the API client, checked under SpecClient.                 *)
(***************************************************************************)
\* the step is a _get_headers call
IsGetHeaders == request.pc = "loop" /\ lastOp'.op = "_get_headers"
\* the step sends a request
IsRequest == request.pc = "send" /\ lastOp'.op = "request"

\* C13: after a successful credential exchange at time t with reported
\* lifetime ttl (and no invalidation since), a _get_headers call at a time
\* before t + ttl - 300 performs no credential exchange, and one at or after
\* that instant performs one.
C13_OneExchangePerWindow ==
    [][(IsGetHeaders /\ trace.issued.t # NULL) =>
          IF now < trace.issued.t + trace.issued.ttl - TokenMargin
          THEN /\ ~lastOp'.exchanged
               /\ trace'.exchanges = 0
               /\ UNCHANGED <<access_token, token_expires_at>>
          ELSE /\ lastOp'.exchanged
               /\ trace'.exchanges = 1]_vars

\* a token of lifetime 302 issued one second ago is used again without an
\* exchange
C13_Witness ==
    /\ lastOp.op = "_get_headers"
    /\ ~lastOp.exchanged
    /\ trace.issued.ttl = 302
    /\ now = trace.issued.t + 1
    /\ request.pc = "send"

\* C14: whenever _make_request is about to send, the token _get_headers
\* just returned is present and not expired (now < _token_expires_at),
\* whatever lifetime the auth endpoint reported.
C14_RequestsCarryFreshToken ==
    request.pc = "send" => (access_token # NULL /\ now < token_expires_at)

\* C15: one _get_headers call performs at most two credential exchanges: a
\* failed first exchange clears the token and is followed by exactly one
\* re-attempt; when that fails too the token is absent, the error is raised
\* and the call of _make_request ends without sending a request.
C15_AtMostTwoExchanges ==
    /\ [](trace.exchanges <= 2)
    /\ [](request.pc = "reauth" => (access_token = NULL /\ trace.exchanges = 1))
    /\ [][IsGetHeaders =>
            /\ trace'.exchanges <= 1
            /\ request'.pc \in {"send", "reauth"}
            /\ request'.pc = "send" => access_token' # NULL]_vars
    /\ [][request.pc = "reauth" =>
            /\ trace'.exchanges = 2
            /\ request'.pc \in {"send", "returned"}
            /\ request'.pc = "send" => (access_token' # NULL /\ ~lastOp'.raised)
            /\ request'.pc = "returned" =>
                  /\ lastOp'.raised
                  /\ access_token' = NULL
                  /\ request'.result = "none"
                  /\ trace'.sent = trace.sent]_vars

\* in a second call the token had to be renewed and both exchanges failed
C15_Witness ==
    /\ lastOp.op = "_get_headers retry"
    /\ lastOp.raised
    /\ trace.calls = 2
    /\ trace.exchanges = 2
    /\ trace.sent = 0
    /\ access_token = NULL
    /\ request.pc = "returned"

\* C16: after a 429 whose reset header gives the instant T the next request
\* of the call is sent at T or later (15 seconds after the 429 or later when
\* the header is absent or does not parse); and a 2xx response with a JSON
\* body, on any attempt the loop makes, ends the call with that body.
C16_RetryWaitsForReset ==
    [][IsRequest =>
          /\ request.retries <= request.max_retries
          /\ trace.earliest # NULL => now >= trace.earliest
          /\ (lastOp'.resp.status = 200 /\ lastOp'.resp.body = "json") =>
                (request'.pc = "returned" /\ request'.result = "json")]_vars

\* a 429 asked to wait three seconds, the retry went out a second after the
\* reset instant and its 200 was returned
C16_Witness ==
    /\ lastOp.op = "request"
    /\ lastOp.resp.status = 200
    /\ lastOp.earliest # NULL
    /\ lastOp.at = lastOp.earliest + 1
    /\ request.retries = 1
    /\ request.pc = "returned"
    /\ request.result = "json"

\* C17: a 401 response invalidates the token, so that the next attempt
\* exchanges credentials before it sends; the retry takes one unit of
\* max_retries; and one call retries at most once because of 401 responses.
C17_UnauthorizedRetriedOnce ==
    [][(IsRequest /\ lastOp'.resp.status = 401) =>
          /\ access_token' = NULL
          /\ token_expires_at' = now
          /\ request'.pc = "loop" =>
                /\ request'.retries = request.retries + 1
                /\ trace.unauthorized = 0]_vars

\* C18: whatever the responses, a call of _make_request sends at most
\* max_retries + 1 requests, every retry (429, 401, timeout) adds one to the
\* same counter, and the call returns.
C18_BoundedRequests ==
    /\ [](/\ trace.sent <= request.max_retries + 1
          /\ request.retries <= request.max_retries + 1
          /\ request.pc \in {"send", "loop", "reauth"} =>
                trace.sent = request.retries)
    /\ [][(IsRequest /\ request'.pc = "loop") =>
            request'.retries = request.retries + 1]_vars
    /\ ((request.pc \in {"loop", "reauth", "send"}) ~> (request.pc = "returned"))

\* four requests were sent, one of them retried after a 401, the last one
\* answered 429, and the call gave up
C18_Witness ==
    /\ lastOp.op = "exhausted"
    /\ request.pc = "returned"
    /\ trace.sent = DefaultMaxRetries + 1
    /\ trace.unauthorized = 1
    /\ request.response = 429

\* C19: a response with a 4xx status other than 401 and 429, or a 5xx
\* status, ends the call with a failure result at once, whatever is left of
\* the retry budget; nothing more is sent until the next call starts.
C19_OtherStatusIsTerminal ==
    /\ [][(IsRequest /\ lastOp'.resp.status \in {404, 500}) =>
            /\ request'.pc = "returned"
            /\ request'.result = "none"
            /\ request'.retries = request.retries
            /\ UNCHANGED <<access_token, token_expires_at, now>>]_vars
    /\ [][request.pc = "returned" =>
            (trace'.sent = trace.sent \/ trace'.calls = trace.calls + 1)]_vars

\* a 500 ended a call that had used one of its three retries
C19_Witness ==
    /\ lastOp.op = "request"
    /\ lastOp.resp.status = 500
    /\ request.pc = "returned"
    /\ request.result = "none"
    /\ request.retries = 1
    /\ request.max_retries = DefaultMaxRetries

\* C20: a request that fails without an HTTP response, by a timeout or by a
\* connection error, is retried after a pause as long as retries are left.
C20_NetworkFailureRetried ==
    [][(/\ IsRequest
        /\ lastOp'.resp.kind \in {"timeout", "connection_error"}
        /\ request.retries < request.max_retries) =>
          (request'.pc = "loop" /\ now' > now)]_vars

\* C33: how _make_request handles a failed attempt depends only on that
\* attempt's own outcome: a connection-level failure that carries no HTTP
\* response ends the call and leaves the token alone, whether or not an
\* earlier attempt of the same call received a 401 or another response.
C33_FailureHandledByOwnOutcome ==
    [][(/\ request.pc = "send"
        /\ lastOp'.op = "request"
        /\ lastOp'.resp.kind = "connection_error") =>
          /\ request'.pc = "returned"
          /\ request'.result = "none"
          /\ access_token' = access_token
          /\ token_expires_at' = token_expires_at]_vars

(***************************************************************************)
(* get_channel_videos: cursor pagination on top of _make_request, with the *)
(* cutoff of after_date.  A page request is one _make_request call; what   *)
(* it hands back is None or the parsed body.                               *)
(***************************************************************************)
\* 'first': min(limit, 100)
MaxPageSize == 100

Limits == {1, 2, 101}
AfterDates == {NULL, 2}

\* published_at of a record: absent, unparseable, or an instant
PublishedAt == {NULL, BAD, 1, 2, 3}

\* pagination: no cursor, "pagination": null, or a cursor
Cursors == {NULL, BAD, 11, 12}

\* the records of a page, numbered in the order the API serves them
Numbered(published, base) ==
    [i \in 1..Len(published) |-> [id |-> base + i, published_at |-> published[i]]]

ShortPages == UNION {[1..n -> PublishedAt] : n \in 0..2}

\* a page as long as asked for: recent records, the last one maybe at the cutoff
FullPages(first) ==
    IF first > 2
    THEN {[i \in 1..first |-> 3], [i \in 1..first |-> IF i = first THEN 2 ELSE 3]}
    ELSE {}

\* what _make_request returns: None, a body that is a number, an object
\* without 'data', or an object with 'data' and 'pagination'
PageResponses(first, base) ==
    {[kind |-> "page", data |-> Numbered(p, base), cursor |-> c] :
        p \in ShortPages \cup FullPages(first), c \in Cursors}
    \cup {[kind |-> k, data |-> <<>>, cursor |-> NULL] :
            k \in {"none", "number", "no_data"}}

\* mutant: a record published exactly at after_date is kept
MatchesCutoff_Strict(video, after_date) ==
    /\ after_date # NULL
    /\ video.published_at # NULL
    /\ ParseTimestamp(video.published_at) # NULL
    /\ video.published_at < after_date

\* mutant: a published_at that does not parse ends the fetch
MatchesCutoff_UnparseableStops(video, after_date) ==
    /\ after_date # NULL
    /\ video.published_at # NULL
    /\ \/ ParseTimestamp(video.published_at) = NULL
       \/ video.published_at <= after_date

\* published_at_dt <= after_date, for a published_at that is there and parses
MatchesCutoff(video, after_date) ==
    /\ after_date # NULL
    /\ video.published_at # NULL
    /\ ParseTimestamp(video.published_at) # NULL
    /\ video.published_at <= after_date

\* the for loop over videos_batch: records are appended up to the first
\* one that matches the cutoff (tested first) or finds the list full
ScanBatch(videos_batch, all_videos, limit, after_date) ==
    LET matching == {i \in DOMAIN videos_batch :
                        MatchesCutoff(videos_batch[i], after_date)}
        cut == IF matching = {} THEN Len(videos_batch) + 1
               ELSE CHOOSE i \in matching : \A j \in matching : i <= j
        appended == SmallerOf(SmallerOf(cut - 1, limit - Len(all_videos)),
                              Len(videos_batch))
    IN  [all_videos |-> all_videos \o SubSeq(videos_batch, 1, appended),
         stop |-> IF appended = Len(videos_batch) THEN "none"
                  ELSE IF appended + 1 = cut THEN "cutoff"
                  ELSE "limit"]

GetChannelVideos(user_id, limit, after_date) ==
    /\ fetch.pc = "idle"
    /\ fetch' = [NoFetch EXCEPT
                    !.pc = "loop", !.user_id = user_id, !.limit = limit,
                    !.after_date = after_date,
                    !.first = SmallerOf(limit, MaxPageSize),
                    !.max_potential_pages =
                        (limit + SmallerOf(limit, MaxPageSize) - 1)
                            \div SmallerOf(limit, MaxPageSize)]
    /\ now' = now
    /\ lastOp' = [op |-> "get_channel_videos", conn |-> NoConn, raised |-> FALSE]

\* one turn of the while loop: the request, the scan of the page, the
\* breaks, the next cursor and page size, and the test of the loop condition
AfterPage(f, resp) ==
    LET asked == [f EXCEPT !.pages_fetched = @ + 1,
                           !.requests = Append(@, [first |-> f.first,
                                                   after |-> f.cursor]),
                           !.received = @ \o resp.data,
                           !.last_batch = Len(resp.data)]
        scan == ScanBatch(resp.data, f.all_videos, f.limit, f.after_date)
        kept == [asked EXCEPT !.all_videos = scan.all_videos]
        first == SmallerOf(MaxPageSize, f.limit - Len(scan.all_videos))
        next == [kept EXCEPT !.cursor = resp.cursor, !.first = first]
    IN  IF resp.kind = "none"
        THEN [asked EXCEPT !.pc = "returned", !.failed = TRUE,
                           !.stop = "request_failed"]
        ELSE IF resp.kind = "number"
        THEN [asked EXCEPT !.pc = "raised", !.malformed = TRUE, !.stop = "raised"]
        ELSE IF resp.kind = "no_data"
        THEN [asked EXCEPT !.pc = "returned", !.malformed = TRUE,
                           !.stop = "no_data"]
        ELSE IF resp.data = <<>>
        THEN [asked EXCEPT !.pc = "returned", !.stop = "empty_page"]
        ELSE IF scan.stop # "none"
        THEN [kept EXCEPT !.pc = "returned", !.stop = scan.stop]
        ELSE IF resp.cursor = BAD
        THEN [kept EXCEPT !.pc = "raised", !.malformed = TRUE, !.stop = "raised"]
        ELSE IF resp.cursor = NULL
        THEN [kept EXCEPT !.cursor = NULL, !.pc = "returned", !.stop = "no_cursor"]
        ELSE IF first <= 0
        THEN [next EXCEPT !.pc = "returned", !.stop = "limit"]
        ELSE IF /\ Len(next.all_videos) < next.limit
                /\ next.pages_fetched < next.max_potential_pages
        THEN next
        ELSE [next EXCEPT !.pc = "returned",
                          !.stop = IF Len(next.all_videos) < next.limit
                                   THEN "max_pages" ELSE "limit"]

FetchPage(resp) ==
    /\ fetch.pc = "loop"
    /\ fetch' = AfterPage(fetch, resp)
    /\ now' = now
    /\ lastOp' = [op |-> "get_channel_videos", conn |-> NoConn,
                  raised |-> AfterPage(fetch, resp).pc = "raised"]

\* the caller has the list, or the exception
FetchReturn ==
    /\ fetch.pc \in {"returned", "raised"}
    /\ fetch' = NoFetch
    /\ UNCHANGED <<now, lastOp>>

(***************************************************************************)
(* SpecFetch: calls of get_channel_videos against every page sequence.     *)
(***************************************************************************)
OnlyFetch ==
    UNCHANGED <<committed, pending, writer, passVars,
                access_token, token_expires_at, request, trace, scanLoop>>

CallGetChannelVideos ==
    \E limit \in Limits, after_date \in AfterDates :
        GetChannelVideos(ChA, limit, after_date) /\ OnlyFetch

CallFetchPage ==
    \E resp \in PageResponses(fetch.first, Len(fetch.received)) :
        FetchPage(resp) /\ OnlyFetch

CallFetchReturn == FetchReturn /\ OnlyFetch

NextFetch ==
    \/ CallGetChannelVideos
    \/ CallFetchPage
    \/ CallFetchReturn

SpecFetch == Init /\ [][NextFetch]_vars

\* C21: whatever the credential exchange and the HTTP attempts do
\* (exchange failing twice, timeouts, error statuses, malformed bodies),
\* and for every limit >= 1, _make_request and the endpoint methods built
\* on it return a failure value (None, an empty list, the records collected
\* so far) and never raise.
C21_EndpointsNeverRaise ==
    /\ request.pc # "raised"
    /\ fetch.pc # "raised"

\* the cutoff in the claim's words: a published_at that is not newer than after_date
NotNewer(video, after_date) ==
    /\ after_date # NULL
    /\ video.published_at \notin {NULL, BAD}
    /\ video.published_at <= after_date

\* position of the first such record, Len + 1 when there is none
FirstNotNewer(videos, after_date) ==
    IF \E i \in DOMAIN videos : NotNewer(videos[i], after_date)
    THEN CHOOSE i \in DOMAIN videos :
            /\ NotNewer(videos[i], after_date)
            /\ \A j \in 1..(i - 1) : ~NotNewer(videos[j], after_date)
    ELSE Len(videos) + 1

\* C22: the list get_channel_videos returns keeps the order of the pages,
\* has at most limit records and contains no record at or after the first
\* record whose published_at is not newer than after_date; once such a
\* record has been met no further page is requested.
C22_OrderLimitCutoff ==
    /\ [](fetch.pc = "returned" =>
            /\ Len(fetch.all_videos) <= fetch.limit
            /\ Len(fetch.all_videos) <= Len(fetch.received)
            /\ fetch.all_videos = SubSeq(fetch.received, 1, Len(fetch.all_videos))
            /\ Len(fetch.all_videos)
                  < FirstNotNewer(fetch.received, fetch.after_date))
    /\ [][fetch'.pages_fetched > fetch.pages_fetched =>
            FirstNotNewer(fetch.received, fetch.after_date)
                > Len(fetch.received)]_vars

\* two pages, the cutoff met inside the second one
C22_Witness ==
    /\ fetch.pc = "returned"
    /\ Len(fetch.requests) = 2
    /\ Len(fetch.all_videos) > MaxPageSize
    /\ FirstNotNewer(fetch.received, fetch.after_date) = Len(fetch.received)
    /\ Len(fetch.all_videos) = Len(fetch.received) - 1

\* C23: when every page request succeeds, get_channel_videos (limit >= 1)
\* stops only when a page came back with zero records, when limit records
\* are collected, when no cursor came back, or when a record matched the
\* cutoff; pages shorter than asked for make it request the next page.
C23_StopsOnlyOnListedConditions ==
    (fetch.pc = "returned" /\ ~fetch.failed /\ ~fetch.malformed) =>
        \/ fetch.last_batch = 0
        \/ Len(fetch.all_videos) >= fetch.limit
        \/ fetch.cursor = NULL
        \/ FirstNotNewer(fetch.received, fetch.after_date) <= Len(fetch.received)

(***************************************************************************)
(* Categories and the staleness columns: save_categories,                  *)
(* update_category_scan_time, update_channel_video_fetch_time, and the     *)
(* selectors that order by them.  The three writers catch sqlite3.Error,   *)
(* roll back and return None, as they do after a commit.                   *)
(***************************************************************************)
CategoryIds == {"g1", "g2"}

InsertOrIgnoreCategory(db, cat) ==
    IF cat.id \in DOMAIN db.categories
    THEN db
    ELSE [db EXCEPT !.categories =
             Put(db.categories, cat.id,
                 [name |-> cat.name, last_scanned_top_streams |-> NULL])]

\* cursor.executemany over the categories
RECURSIVE ExecuteManyCategories(_, _)
ExecuteManyCategories(db, categories) ==
    IF categories = <<>> THEN db
    ELSE ExecuteManyCategories(InsertOrIgnoreCategory(db, Head(categories)),
                               Tail(categories))

SaveCategories(c, categories) ==
    /\ now' = now
    /\ IF CanWrite(c)
       THEN /\ ConnCommit(c, ExecuteManyCategories(View(c), categories))
            /\ lastOp' = [op |-> "save_categories", conn |-> c, raised |-> FALSE,
                          failed |-> FALSE, result |-> NULL]
       ELSE /\ ConnRollback(c)
            /\ lastOp' = [op |-> "save_categories", conn |-> c, raised |-> FALSE,
                          failed |-> TRUE, result |-> NULL]

\* mutant: the UPDATE matches no row
CategoryScanned_NoRow(db, category_id) == db

\* UPDATE Categories SET last_scanned_top_streams = now WHERE id = ?
CategoryScanned(db, category_id) ==
    IF category_id \in DOMAIN db.categories
    THEN [db EXCEPT !.categories[category_id].last_scanned_top_streams = now]
    ELSE db

UpdateCategoryScanTime(c, category_id) ==
    /\ now' = now
    /\ IF CanWrite(c)
       THEN /\ ConnCommit(c, CategoryScanned(View(c), category_id))
            /\ lastOp' = [op |-> "update_category_scan_time", conn |-> c,
                          id |-> category_id, raised |-> FALSE,
                          failed |-> FALSE, result |-> NULL]
       ELSE /\ ConnRollback(c)
            /\ lastOp' = [op |-> "update_category_scan_time", conn |-> c,
                          id |-> category_id, raised |-> FALSE,
                          failed |-> TRUE, result |-> NULL]

\* UPDATE Channels SET last_fetched_videos = now WHERE id = ?
ChannelVideosFetched(db, channel_id) ==
    IF channel_id \in DOMAIN db.channels
    THEN [db EXCEPT !.channels[channel_id].last_fetched_videos = now]
    ELSE db

UpdateChannelVideoFetchTime(c, channel_id) ==
    /\ now' = now
    /\ IF CanWrite(c)
       THEN /\ ConnCommit(c, ChannelVideosFetched(View(c), channel_id))
            /\ lastOp' = [op |-> "update_channel_video_fetch_time", conn |-> c,
                          id |-> channel_id, raised |-> FALSE,
                          failed |-> FALSE, result |-> NULL]
       ELSE /\ ConnRollback(c)
            /\ lastOp' = [op |-> "update_channel_video_fetch_time", conn |-> c,
                          id |-> channel_id, raised |-> FALSE,
                          failed |-> TRUE, result |-> NULL]

\* mutant: ORDER BY ... ASC NULLS LAST
NullsFirstBefore_NullsLast(x, y) ==
    IF y = NULL THEN x # NULL ELSE x # NULL /\ x < y

\* ORDER BY ... ASC NULLS FIRST: x sorts strictly before y
NullsFirstBefore(x, y) ==
    IF x = NULL THEN y # NULL ELSE y # NULL /\ x < y

\* every list that SELECT ... ORDER BY key ASC NULLS FIRST LIMIT limit may
\* return over the rows ids: rows with equal keys come in any order, and a
\* negative LIMIT is no limit
OrderedLimit(ids, key, limit) ==
    LET n == IF limit < 0 THEN Cardinality(ids)
             ELSE SmallerOf(limit, Cardinality(ids))
    IN  {s \in [1..n -> ids] :
            /\ \A i, j \in 1..n :
                  i < j => s[i] # s[j] /\ ~NullsFirstBefore(key[s[j]], key[s[i]])
            /\ \A x \in ids \ {s[i] : i \in 1..n} :
                  \A i \in 1..n : ~NullsFirstBefore(key[x], key[s[i]])}

GetCategoriesToScan(db, limit) ==
    OrderedLimit(DOMAIN db.categories,
                 [k \in DOMAIN db.categories |->
                     db.categories[k].last_scanned_top_streams],
                 limit)

\* WHERE last_fetched_videos IS NULL OR last_fetched_videos < now - max age
GetChannelsToFetchVideos(db, videos_max_age_days, limit) ==
    OrderedLimit({k \in DOMAIN db.channels :
                     \/ db.channels[k].last_fetched_videos = NULL
                     \/ db.channels[k].last_fetched_videos
                           < now - videos_max_age_days},
                 [k \in DOMAIN db.channels |-> db.channels[k].last_fetched_videos],
                 limit)

GetStaleChannelsForRefresh(db, limit) ==
    OrderedLimit(DOMAIN db.channels,
                 [k \in DOMAIN db.channels |-> db.channels[k].last_fetched_videos],
                 limit)

\* a selector call: the store is read, the list goes to the caller
Selected(c, name, limit, result) ==
    /\ lastOp' = [op |-> name, conn |-> c, raised |-> FALSE, limit |-> limit,
                  result |-> result]
    /\ UNCHANGED <<committed, pending, writer, now>>

(***************************************************************************)
(* SpecStaleness: the three channels of the crawl, categories, scan and    *)
(* fetch times written at different instants, and the selectors.           *)
(***************************************************************************)
SelectorLimits == 0..3
MaxAgeDays == {0, 1}
CategoryBatches ==
    {<<[id |-> "g1", name |-> 1]>>, <<[id |-> "g2", name |-> 2]>>,
     <<[id |-> "g1", name |-> 1], [id |-> "g2", name |-> 2]>>}

CallSaveCategories ==
    \E c \in CallConns, categories \in CategoryBatches :
        SaveCategories(c, categories) /\ UNCHANGED <<passVars, clientVars>>

CallUpdateCategoryScanTime ==
    \E c \in CallConns, id \in CategoryIds :
        UpdateCategoryScanTime(c, id) /\ UNCHANGED <<passVars, clientVars>>

CallUpdateChannelVideoFetchTime ==
    \E c \in CallConns, id \in ChannelIds :
        UpdateChannelVideoFetchTime(c, id) /\ UNCHANGED <<passVars, clientVars>>

CallGetCategoriesToScan ==
    \E c \in CallConns, limit \in SelectorLimits :
        \E result \in GetCategoriesToScan(View(c), limit) :
            /\ Selected(c, "get_categories_to_scan", limit, result)
            /\ UNCHANGED <<passVars, clientVars>>

CallGetChannelsToFetchVideos ==
    \E c \in CallConns, limit \in SelectorLimits, days \in MaxAgeDays :
        \E result \in GetChannelsToFetchVideos(View(c), days, limit) :
            /\ Selected(c, "get_channels_to_fetch_videos", limit, result)
            /\ UNCHANGED <<passVars, clientVars>>

CallGetStaleChannelsForRefresh ==
    \E c \in CallConns, limit \in SelectorLimits :
        \E result \in GetStaleChannelsForRefresh(View(c), limit) :
            /\ Selected(c, "get_stale_channels_for_refresh", limit, result)
            /\ UNCHANGED <<passVars, clientVars>>

NextStaleness ==
    \/ CallSaveCategories
    \/ CallUpdateCategoryScanTime
    \/ CallUpdateChannelVideoFetchTime
    \/ CallGetCategoriesToScan
    \/ CallGetChannelsToFetchVideos
    \/ CallGetStaleChannelsForRefresh
    \/ ClockTick

SpecStaleness == InitPass /\ [][NextStaleness]_vars

\* the staleness column a selector orders by
StalenessOf(db, op, id) ==
    IF op = "get_categories_to_scan"
    THEN db.categories[id].last_scanned_top_streams
    ELSE db.channels[id].last_fetched_videos

C26_WriteErrorsAreSignalled ==
    ("failed" \in DOMAIN lastOp /\ lastOp.failed) =>
        \/ lastOp.raised
        \/ lastOp.result # NULL

(***************************************************************************)
(* The video refresh pass.  Its code is not in src/; it is modelled from   *)
(* the specification (sections 4.4, 5 and 7): take the channels that are   *)
(* due from a selector, fetch the videos of each, and advance              *)
(* last_fetched_videos once the fetch has handed back its list; an         *)
(* exception aborts the channel, not the run.                              *)
(***************************************************************************)
RefreshFrame ==
    UNCHANGED <<passVars, access_token, token_expires_at, request, trace, scanLoop>>

RefreshStart ==
    \E c \in CallConns :
        \E result \in GetStaleChannelsForRefresh(View(c), 3)
                        \cup GetChannelsToFetchVideos(View(c), 0, 3) :
            \E i \in DOMAIN result, after_date \in AfterDates :
                /\ GetChannelVideos(result[i], 2, after_date)
                /\ UNCHANGED <<committed, pending, writer>>
                /\ RefreshFrame

RefreshPage ==
    \E resp \in PageResponses(fetch.first, Len(fetch.received)) :
        /\ FetchPage(resp)
        /\ UNCHANGED <<committed, pending, writer>>
        /\ RefreshFrame

RefreshAdvance ==
    \E c \in CallConns :
        /\ fetch.pc = "returned"
        /\ UpdateChannelVideoFetchTime(c, fetch.user_id)
        /\ fetch' = NoFetch
        /\ RefreshFrame

RefreshAbort ==
    /\ fetch.pc = "raised"
    /\ fetch' = NoFetch
    /\ UNCHANGED <<committed, pending, writer, now, lastOp>>
    /\ RefreshFrame

NextRefresh ==
    \/ RefreshStart
    \/ RefreshPage
    \/ RefreshAdvance
    \/ RefreshAbort
    \/ ClockTick

SpecRefresh == InitPass /\ [][NextRefresh]_vars

TimestampVideos ==
    {VideoInput(id, ChA, 1, published_at) :
        id \in {"v1", "v2"}, published_at \in {BAD, 1}}

TimestampBatches ==
    {<<v>> : v \in TimestampVideos}
    \cup {<<v, w>> : v \in TimestampVideos, w \in TimestampVideos}

TimestampDetails ==
    {ChannelDetails(ChA, 1, profile, created_at) :
        profile \in {1, 2}, created_at \in {BAD, 1, 2}}

TsSaveChannelBasic ==
    /\ fetch.pc # "loop"
    /\ \E c \in CallConns : SaveChannelBasic(c, ChA, 1, 1)
    /\ UNCHANGED <<passVars, clientVars>>

TsSaveChannelDetails ==
    /\ fetch.pc # "loop"
    /\ \E c \in CallConns, channel_details \in TimestampDetails :
          SaveChannelDetails(c, channel_details)
    /\ UNCHANGED <<passVars, clientVars>>

TsSaveVideos ==
    /\ fetch.pc # "loop"
    /\ \E c \in CallConns, videos \in TimestampBatches : SaveVideos(c, videos)
    /\ UNCHANGED <<passVars, clientVars>>

TsGetChannelVideos == GetChannelVideos(ChA, 2, 2) /\ OnlyFetch

NextTimestamps ==
    \/ TsSaveChannelBasic
    \/ TsSaveChannelDetails
    \/ TsSaveVideos
    \/ TsGetChannelVideos
    \/ CallFetchPage
    \/ CallFetchReturn

SpecTimestamps == Init /\ [][NextTimestamps]_vars

\* what a timestamp field holds once stored
StoredTimestamp(s) == IF s \in {NULL, BAD} THEN NULL ELSE s

\* C27: a malformed timestamp never aborts the operation that meets it.
\* save_videos stores a video whose published_at / created_at does not
\* parse with that field null, and still stores the other videos of the
\* batch; save_channel_details given a created_at that does not parse
\* writes the other fields and keeps the stored created_at;
\* get_channel_videos takes a published_at that does not parse as not
\* matching the cutoff and goes on with the following records.
C27_MalformedTimestampNeverAborts ==
    /\ [][(lastOp'.op = "save_videos" /\ ~lastOp'.failed) =>
            \A i \in DOMAIN lastOp'.videos :
               LET v == lastOp'.videos[i]
               IN  (/\ v.id \notin DOMAIN committed.videos
                    /\ \A j \in 1..(i - 1) : lastOp'.videos[j].id # v.id) =>
                      /\ v.id \in DOMAIN committed'.videos
                      /\ committed'.videos[v.id].title = v.title
                      /\ committed'.videos[v.id].published_at
                            = StoredTimestamp(v.published_at)
                      /\ committed'.videos[v.id].created_at_api
                            = StoredTimestamp(v.created_at)]_vars
    /\ [][(/\ lastOp'.op = "save_channel_details"
            /\ lastOp'.details.created_at = BAD
            /\ ~lastOp'.raised) =>
            LET id == lastOp'.details.id
            IN  /\ id \in DOMAIN committed'.channels
                /\ committed'.channels[id].display_name
                      = lastOp'.details.display_name
                /\ committed'.channels[id].description
                      = lastOp'.details.description
                /\ committed'.channels[id].follower_count
                      = lastOp'.details.follower_count
                /\ committed'.channels[id].created_at
                      = IF id \in DOMAIN committed.channels
                        THEN committed.channels[id].created_at
                        ELSE NULL]_vars
    /\ [](fetch.stop = "cutoff" =>
            fetch.received[Len(fetch.all_videos) + 1].published_at
                \notin {NULL, BAD})
    /\ [](\A i \in DOMAIN fetch.received :
            (/\ fetch.received[i].published_at = BAD
             /\ i <= fetch.limit
             /\ i < FirstNotNewer(fetch.received, fetch.after_date)) =>
               /\ i <= Len(fetch.all_videos)
               /\ fetch.all_videos[i] = fetch.received[i])

\* a batch whose first video has no parseable timestamp is stored whole,
\* and a fetch with a cutoff has gone past a record that does not parse
C27_Witness ==
    /\ lastOp.op = "save_videos"
    /\ ~lastOp.failed
    /\ Len(lastOp.videos) = 2
    /\ lastOp.videos[1].published_at = BAD
    /\ committed.videos[lastOp.videos[1].id].published_at = NULL
    /\ committed.videos[lastOp.videos[2].id].published_at = 1
    /\ committed.channels[ChA].created_at = 1
    /\ fetch.pc = "returned"
    /\ fetch.after_date # NULL
    /\ Len(fetch.all_videos) = 2
    /\ fetch.all_videos[1].published_at = BAD

(***************************************************************************)
(* SpecFrame: stub, detail and fetch-time writes on the Channels table at  *)
(* different instants.                                                     *)
(***************************************************************************)
FrameSaveChannelBasic ==
    \E c \in CallConns, id \in PairChannels :
        SaveChannelBasic(c, id, LoginOf(id), 1) /\ UNCHANGED <<passVars, clientVars>>

FrameSaveChannelDetails ==
    \E c \in CallConns, channel_details \in TimestampDetails :
        SaveChannelDetails(c, channel_details) /\ UNCHANGED <<passVars, clientVars>>

FrameUpdateChannelVideoFetchTime ==
    \E c \in CallConns, id \in PairChannels :
        UpdateChannelVideoFetchTime(c, id) /\ UNCHANGED <<passVars, clientVars>>

NextFrame ==
    \/ FrameSaveChannelBasic
    \/ FrameSaveChannelDetails
    \/ FrameUpdateChannelVideoFetchTime
    \/ ClockTick

SpecFrame == Init /\ [][NextFrame]_vars

\* the columns of a Channels row but last_fetched_videos
ButFetchTime(row) == [row EXCEPT !.last_fetched_videos = NULL]

\* C31: save_channel_details on an existing channel leaves its first_seen
\* and last_fetched_videos unchanged, and update_channel_video_fetch_time
\* changes only last_fetched_videos (of the row with the given id, to the
\* current time): first_seen keeps the value set when the row was created
\* through any sequence of stub, detail and fetch-time writes, and a
\* refresh of the profile details never advances or resets the channel's
\* video staleness.
C31_FirstSeenAndFetchTimeFramed ==
    /\ [][\A id \in DOMAIN committed.channels :
            /\ id \in DOMAIN committed'.channels
            /\ committed'.channels[id].first_seen
                  = committed.channels[id].first_seen]_vars
    /\ [][(lastOp'.op = "save_channel_details" /\ now' = now) =>
            \A id \in DOMAIN committed.channels :
               committed'.channels[id].last_fetched_videos
                  = committed.channels[id].last_fetched_videos]_vars
    /\ [][(lastOp'.op = "update_channel_video_fetch_time" /\ now' = now) =>
            /\ DOMAIN committed'.channels = DOMAIN committed.channels
            /\ \A id \in DOMAIN committed.channels :
                  /\ ButFetchTime(committed'.channels[id])
                        = ButFetchTime(committed.channels[id])
                  /\ committed'.channels[id].last_fetched_videos
                        = IF id = lastOp'.id /\ ~lastOp'.failed THEN now
                          ELSE committed.channels[id].last_fetched_videos
            /\ committed'.videos = committed.videos
            /\ committed'.collabs = committed.collabs]_vars

\* details refreshed after the videos were fetched, on a row created earlier
C31_Witness ==
    /\ lastOp.op = "save_channel_details"
    /\ ~lastOp.raised
    /\ committed.channels[ChA].first_seen = 1
    /\ committed.channels[ChA].last_fetched_videos = 1
    /\ committed.channels[ChA].last_fetched_details = 2
    /\ ChB \in DOMAIN committed.channels

(***************************************************************************)
(* SpecScan: the loop of the claim over a fixed set of categories: take    *)
(* get_categories_to_scan(limit), call update_category_scan_time for every *)
(* category of the list, again.  The clock moves on between two updates.   *)
(***************************************************************************)
MaxScanClock == 5

ScanLimits == {1, 2}

ScanCategories ==
    <<[id |-> "g1", name |-> 1], [id |-> "g2", name |-> 2],
      [id |-> "g3", name |-> 3]>>

ScanFrame ==
    UNCHANGED <<passVars, access_token, token_expires_at, request, trace, fetch>>

InitScan ==
    /\ now = 1
    /\ committed = ExecuteManyCategories(EmptyDb, ScanCategories)
    /\ pending = committed
    /\ writer = NoConn
    /\ lastOp = [op |-> "save_categories", conn |-> "c1", raised |-> FALSE,
                 failed |-> FALSE, result |-> NULL]
    /\ pc = [w \in Conns |-> "idle"]
    /\ batch = [w \in Conns |-> <<>>]
    /\ todo = [w \in Conns |-> <<>>]
    /\ done = [w \in Conns |-> {}]
    /\ access_token = NULL
    /\ token_expires_at = now
    /\ request = NoRequest
    /\ trace = NoTrace
    /\ fetch = NoFetch
    /\ \E limit \in ScanLimits : scanLoop = [NoScan EXCEPT !.pc = "select", !.limit = limit]

ScanSelect ==
    \E c \in CallConns :
        \E result \in GetCategoriesToScan(View(c), scanLoop.limit) :
            /\ scanLoop.pc = "select"
            /\ Selected(c, "get_categories_to_scan", scanLoop.limit, result)
            /\ scanLoop' = [scanLoop EXCEPT !.pc = IF result = <<>> THEN "select" ELSE "update",
                                    !.result = result, !.remaining = result]
            /\ ScanFrame

ScanUpdate ==
    \E c \in CallConns :
        /\ scanLoop.pc = "update"
        /\ scanLoop.stamped < now
        /\ UpdateCategoryScanTime(c, Head(scanLoop.remaining))
        /\ scanLoop' = [scanLoop EXCEPT !.remaining = Tail(@), !.stamped = now,
                                !.pc = IF Tail(scanLoop.remaining) = <<>>
                                       THEN "select" ELSE "update"]
        /\ ScanFrame

\* the clock between two updates
ScanTick ==
    /\ scanLoop.stamped = now
    /\ now < MaxScanClock
    /\ now' = now + 1
    /\ UNCHANGED <<committed, pending, writer, lastOp, scanLoop>>
    /\ ScanFrame

NextScan ==
    \/ ScanSelect
    \/ ScanUpdate
    \/ ScanTick

SpecScan == InitScan /\ [][NextScan]_vars

\* SpecScanFair: the loop goes on as long as it can
SpecScanFair == InitScan /\ [][NextScan]_vars /\ WF_vars(NextScan)

LastScanned(db, id) == db.categories[id].last_scanned_top_streams

\* C34: with a fixed finite set of categories and a strictly advancing
\* clock, the loop that takes get_categories_to_scan(limit), limit >= 1,
\* and calls update_category_scan_time for every returned category
\* eventually scans every category, and no category that has been scanned
\* is returned while a never-scanned category or one scanned earlier is
\* left out of the result.
C34_NoCategoryStarved ==
    /\ [][(scanLoop.pc = "select" /\ scanLoop'.pc = "update") =>
            \A i \in DOMAIN scanLoop'.result :
               \A x \in DOMAIN committed.categories
                          \ {scanLoop'.result[j] : j \in DOMAIN scanLoop'.result} :
                  \/ LastScanned(committed, scanLoop'.result[i]) = NULL
                  \/ /\ LastScanned(committed, x) # NULL
                     /\ LastScanned(committed, scanLoop'.result[i])
                           < LastScanned(committed, x)]_vars
    /\ <>(\A id \in DOMAIN committed.categories :
             LastScanned(committed, id) # NULL)

\* the second round of a loop with limit 2: the category left out by the
\* first round comes first, then the one scanned first
C34_Witness ==
    /\ scanLoop.pc = "update"
    /\ scanLoop.limit = 2
    /\ scanLoop.result = scanLoop.remaining
    /\ Len(scanLoop.result) = 2
    /\ LastScanned(committed, scanLoop.result[1]) = NULL
    /\ LastScanned(committed, scanLoop.result[2]) = 1
    /\ \E x \in DOMAIN committed.categories : LastScanned(committed, x) = 2

(***************************************************************************)
(* Mentions (src/network_utils.py).  A text is the sequence of its         *)
(* characters; str.lower() and SQLite's LOWER() agree on the ASCII         *)
(* characters a login is made of.                                          *)
(***************************************************************************)
\* {4,25} of MENTION_REGEX
MinMention == 4
MaxMention == 25

\* [a-zA-Z0-9_], as far as the texts of the model go
WordChars == {"a", "b", "A", "B", "1", "_"}

LowerChar(ch) == IF ch = "A" THEN "a" ELSE IF ch = "B" THEN "b" ELSE ch

\* str.lower()
Lower(text) == [i \in DOMAIN text |-> LowerChar(text[i])]

\* how many word characters follow from position i on
RECURSIVE RunLength(_, _)
RunLength(text, i) ==
    IF i > Len(text) \/ text[i] \notin WordChars THEN 0
    ELSE 1 + RunLength(text, i + 1)

\* MENTION_REGEX.findall(text): the groups of the matches from left to
\* right, each match greedy, the scan resuming behind it
RECURSIVE FindAll(_, _)
FindAll(text, i) ==
    IF i > Len(text) THEN <<>>
    ELSE IF text[i] = "@" /\ RunLength(text, i + 1) >= MinMention
    THEN LET n == SmallerOf(RunLength(text, i + 1), MaxMention)
         IN  <<SubSeq(text, i + 1, i + n)>> \o FindAll(text, i + n + 1)
    ELSE FindAll(text, i + 1)

\* list(set(...)): the elements of S once each, in any order
ListsOfSet(S) ==
    {l \in [1..Cardinality(S) -> S] :
        \A i, j \in 1..Cardinality(S) : i # j => l[i] # l[j]}

\* mutant: the lower-cased matches returned as found, without set()
ExtractMentions_NoSet(input) ==
    IF ~input.is_str \/ input.text = <<>> THEN {<<>>}
    ELSE {[k \in DOMAIN FindAll(input.text, 1) |->
              Lower(FindAll(input.text, 1)[k])]}

\* every list extract_mentions may return
ExtractMentions(input) ==
    IF ~input.is_str \/ input.text = <<>> THEN {<<>>}
    ELSE ListsOfSet({Lower(FindAll(input.text, 1)[k]) :
                        k \in DOMAIN FindAll(input.text, 1)})

\* mutant: the key is the login as stored
FoundKey_AsStored(login) == login

\* login_lower = row['login'].lower()
FoundKey(login) == Lower(login)

\* every (found_channels, not_found_logins) find_mentioned_channel_ids may
\* return: rows come in any order and the last row of a key wins; fails is
\* a sqlite3.Error out of the query
FindMentionedChannelIds(logins, db, fails) ==
    LET logins_set == {Lower(logins[i]) :
                          i \in {k \in DOMAIN logins : logins[k] # <<>>}}
        results == {id \in DOMAIN db.channels :
                       Lower(db.channels[id].login) \in logins_set}
        keys == {FoundKey(db.channels[id].login) : id \in results}
    IN  IF logins = <<>> \/ logins_set = {}
        THEN {[found |-> EmptyTable, not_found |-> {}]}
        ELSE IF fails
        THEN {[found |-> EmptyTable, not_found |-> logins_set]}
        ELSE {[found |-> f, not_found |-> logins_set \ keys] :
                f \in {g \in [keys -> results] :
                          \A k \in keys : FoundKey(db.channels[g[k]].login) = k}}

(***************************************************************************)
(* SpecExtract: extract_mentions on texts put together from pieces.        *)
(***************************************************************************)
LongRun == [i \in 1..MaxMention |-> "a"]

Pieces ==
    {<<"@">>, <<"@", "a", "b", "_", "1">>, <<"@", "A", "B", "_", "1">>,
     <<"@", "a", "b", "1">>, <<"a", "b", "a", "b">>, LongRun, <<" ">>, <<"_">>}

Texts ==
    {<<>>} \cup Pieces
    \cup {p \o q : p \in Pieces, q \in Pieces}
    \cup {p \o q \o t : p \in Pieces, q \in Pieces, t \in Pieces}

\* a str, or anything else (None, a number, bytes)
ExtractInputs ==
    {[is_str |-> TRUE, text |-> t] : t \in Texts}
    \cup {[is_str |-> FALSE, text |-> <<>>]}

CallExtractMentions ==
    \E input \in ExtractInputs :
        \E result \in ExtractMentions(input) :
            /\ lastOp' = [op |-> "extract_mentions", conn |-> NoConn,
                          raised |-> FALSE, input |-> input, result |-> result]
            /\ UNCHANGED <<committed, pending, writer, now, passVars, clientVars>>

NextExtract == CallExtractMentions

SpecExtract == Init /\ [][NextExtract]_vars

\* the references of a text in the claim's words: the sigil followed by 4
\* to 25 word characters, as many as there are up to 25
References(text) ==
    {SubSeq(text, p[1] + 1, p[1] + p[2]) :
        p \in {q \in (1..Len(text)) \X (MinMention..MaxMention) :
                  /\ text[q[1]] = "@"
                  /\ q[1] + q[2] <= Len(text)
                  /\ \A k \in (q[1] + 1)..(q[1] + q[2]) : text[k] \in WordChars
                  /\ \/ q[2] = MaxMention
                     \/ q[1] + q[2] = Len(text)
                     \/ text[q[1] + q[2] + 1] \notin WordChars}}

\* C29: for every input extract_mentions returns a duplicate-free
\* collection holding exactly the lower-cased forms of the references of
\* the text ('@' followed by 4 to 25 letters, digits or underscores): a
\* candidate of fewer than 4 such characters is rejected, references that
\* differ only in case give one element, and empty or non-text input gives
\* an empty result.
C29_ExactlyTheLoweredReferences ==
    lastOp.op = "extract_mentions" =>
        LET result == lastOp.result
            text == lastOp.input.text
        IN  /\ \A i, j \in DOMAIN result : i # j => result[i] # result[j]
            /\ {result[i] : i \in DOMAIN result}
                  = IF lastOp.input.is_str
                    THEN {Lower(r) : r \in References(text)}
                    ELSE {}
            /\ \A i \in DOMAIN result :
                  /\ Len(result[i]) >= MinMention
                  /\ Len(result[i]) <= MaxMention
                  /\ \A k \in DOMAIN result[i] : result[i][k] \notin {"A", "B"}
            /\ (~lastOp.input.is_str \/ text = <<>>) => result = <<>>

\* "@AB_1@ab_1@ab1": two spellings of one login and a short candidate
C29_Witness ==
    /\ lastOp.op = "extract_mentions"
    /\ lastOp.input.text = <<"@", "A", "B", "_", "1">> \o <<"@", "a", "b", "_", "1">>
                              \o <<"@", "a", "b", "1">>
    /\ lastOp.result = <<(<<"a", "b", "_", "1">>)>>

(***************************************************************************)
(* SpecResolve: find_mentioned_channel_ids against stores whose logins     *)
(* differ in case.                                                         *)
(***************************************************************************)
StoredLogins ==
    {<<"a", "b", "_", "1">>, <<"A", "B", "_", "1">>, <<"b", "b", "_", "1">>}

CandidateLists ==
    {<<>>} \cup {<<l>> : l \in StoredLogins}
    \cup {<<l, m>> : l \in StoredLogins, m \in StoredLogins}

ResolveSaveChannelBasic ==
    \E c \in CallConns, id \in ChannelIds, login \in StoredLogins :
        SaveChannelBasic(c, id, login, 1) /\ UNCHANGED <<passVars, clientVars>>

CallFindMentionedChannelIds ==
    \E c \in CallConns, logins \in CandidateLists, fails \in BOOLEAN :
        \E out \in FindMentionedChannelIds(logins, View(c), fails) :
            /\ lastOp' = [op |-> "find_mentioned_channel_ids", conn |-> c,
                          raised |-> FALSE, logins |-> logins, fails |-> fails,
                          found |-> out.found, not_found |-> out.not_found]
            /\ UNCHANGED <<committed, pending, writer, now, passVars, clientVars>>

NextResolve ==
    \/ ResolveSaveChannelBasic
    \/ CallFindMentionedChannelIds

SpecResolve == Init /\ [][NextResolve]_vars

\* C28: for every list of candidate logins and every store,
\* find_mentioned_channel_ids returns (found, notFound) whose keys and
\* elements are disjoint and together are exactly the lower-cased input
\* logins; found maps a login only to the id of a channel whose login
\* equals it ignoring case, and a login with such a channel is found; when
\* the query fails, found is empty and notFound holds every candidate.
C28_EveryLoginInExactlyOneOutput ==
    lastOp.op = "find_mentioned_channel_ids" =>
        LET input == {Lower(lastOp.logins[i]) : i \in DOMAIN lastOp.logins}
            found == lastOp.found
            channels == committed.channels
        IN  /\ DOMAIN found \cap lastOp.not_found = {}
            /\ DOMAIN found \cup lastOp.not_found = input
            /\ \A l \in DOMAIN found :
                  /\ found[l] \in DOMAIN channels
                  /\ Lower(channels[found[l]].login) = Lower(l)
            /\ ~lastOp.fails =>
                  \A l \in lastOp.not_found :
                     \A id \in DOMAIN channels : Lower(channels[id].login) # l
            /\ lastOp.fails => found = EmptyTable /\ lastOp.not_found = input

\* "AB_1" asked for while "ab_1" and "AB_1" are two stored channels, and
\* "bb_1" is no channel
C28_Witness ==
    /\ lastOp.op = "find_mentioned_channel_ids"
    /\ ~lastOp.fails
    /\ lastOp.logins = <<(<<"A", "B", "_", "1">>), (<<"b", "b", "_", "1">>)>>
    /\ DOMAIN lastOp.found = {<<"a", "b", "_", "1">>}
    /\ lastOp.not_found = {<<"b", "b", "_", "1">>}
    /\ \E id \in DOMAIN committed.channels :
          id # lastOp.found[<<"a", "b", "_", "1">>]
          /\ Lower(committed.channels[id].login) = <<"a", "b", "_", "1">>

====
